---- MODULE Spec2Model ----
(***************************************************************************)
(* Model of projektwoche-setup:                                            *)
(*   manager/mod.rs          SoftwareBundle::install / uninstall, the      *)
(*                           phase orchestrators and their worker threads  *)
(*   manager/instructions.rs the run(dry_run) contract of the instructions *)
(*   config/machine.rs       OsMatcher                                     *)
(*   logger.rs, main.rs      the logging pipeline and the program around   *)
(*                           it                                            *)
(*                                                                         *)
(* Each part has its own specification over its own variables; the         *)
(* variables of the other parts stay at their idle values.                 *)
(*   Spec        one bundle run: the bundle is built (Init), install() or  *)
(*               uninstall() is called with a dry_run flag, the            *)
(*               orchestrator spawns one thread per package and phase,     *)
(*               joins them, and returns                                   *)
(*               FairSpec adds weak fairness of each thread, over the      *)
(*               smaller bundles                                           *)
(*   SpecInstr   one call of run(dry_run) on one instruction               *)
(*   SpecMatcher one OsMatcher, built and asked                            *)
(*   SpecLogger  one program run around the logger: the main thread, its   *)
(*               workers, the collector thread; FairSpecLogger adds weak   *)
(*               fairness of each thread                                   *)
(*   SpecCollector  LogCollector::run alone, over any filters and any      *)
(*               queued messages                                           *)
(*   SpecStop    LogCollector::run around a client that may call stop()    *)
(*               before run() begins and shuts the system down when it     *)
(*               likes                                                     *)
(*   SpecBuilder the builders: InstructionMapping::new,                    *)
(*               add_prerequisite_checks, Package::add_mapping             *)
(*   SpecLive    run(false) of Assert, WaitForCondition,                   *)
(*               InstallApplication and InstallPackage, command by         *)
(*               command; FairSpecLive adds weak fairness of the call      *)
(***************************************************************************)
EXTENDS Integers, Sequences, FiniteSets

(* ---------------------------------------------------------------------- *)
(* Bounds                                                                 *)
(* ---------------------------------------------------------------------- *)
NPkg == 2          \* packages in the bundle (SoftwareBundle.programs)
MaxLen == 2        \* longest instruction list of one phase
MaxChecks == 2     \* longest prerequisite_checks list
MaxTotal == 3      \* instructions in the whole bundle
NWorkers == 2      \* worker threads that log
MaxMsgs == 2       \* messages one worker logs
MaxSent == 3       \* messages all workers log
MaxFilters == 2    \* filters registered with the collector
NOutputs == 2      \* outputs registered with the collector
MaxCats == 2       \* categories handed to OsMatcher::from_categories
MaxList == 2       \* systems handed to OsMatcher::new
MaxAdds == 2       \* add_mapping calls on one package
MaxTimeout == 3    \* largest timeout_secs of a WaitForCondition
MaxPoll == 2       \* longest run of a check command, in seconds
MaxFairTotal == 2  \* instructions in the whole bundle, termination runs

VARIABLES
  programs,     \* SoftwareBundle.programs, seen through mapping.get(os)
  op,           \* the bundle operation called: "install" or "uninstall"
  dry_run,      \* the dry_run argument of that call
  opc,          \* orchestrator position: "spawn", "join", "ret"
  ophase,       \* 1 or 2: which of the two phase calls is running
  oi,           \* index of the spawn loop `for program in &self.programs`
  handles,      \* the `handles` vector of the running phase
  oj,           \* index of the join loop `for handle in handles`
  result,       \* return value of install()/uninstall(): "none","Ok","Err"
  thread,       \* thread[ph][p]: state of the worker of phase ph, package p
  calls,        \* calls[ph][p]: the instruction invocations of that worker
  panic_log     \* <<ph, p>> for which the join loop printed "Thread panicked"

VARIABLES
  instruction,  \* the instruction run() is called on
  run_dry,      \* the dry_run argument of that call
  run_pc,       \* "idle", "called" or "returned"
  run_res,      \* what run() returned: "none", "Ok", "Err"
  run_fx        \* what run() did, in order: "print", "spawn", "net",
                \* "fs_write", "fs_remove"

VARIABLES
  filters,        \* LogCollector.filters: the min_level of each LevelFilter
  channel,        \* the mpsc channel: messages sent and not yet received
  system_sender,  \* the LoggerSystem (its Sender) has not been dropped
  logger,         \* logger[h]: the Logger handle h, "none", "live", "dropped"
  sent,           \* sent[h]: the messages logged through handle h, in order
  received,       \* the messages recv_timeout has returned, in order
  written,        \* the calls output.write(message), in order: <<output, m>>
  running,        \* LogCollector.running
  stopped,        \* LogCollector::stop() has been called
  collector_pc,   \* the collector thread: "start", "while", "recv", "break",
                  \* "end"
  main_pc,        \* the main thread
  command,        \* cli.command
  bundle_result,  \* what bundle.install / uninstall returned
  worker          \* worker[k]: "none", "running", "ended"

\* The OS matcher (config/machine.rs)
VARIABLES
  os_list,       \* OsMatcher.os_list
  built,         \* the constructor call that made the matcher
  asked,         \* the argument of matches()
  answer,        \* what matches() returned
  matcher_pc     \* "none", "built", "matched"

\* The builders of Package and InstructionMapping (manager/mod.rs)
VARIABLES
  pkg_mapping,   \* Package.mapping: the HashMap from OS to InstructionMapping
  added,         \* the add_mapping calls so far: <<os list, mapping>>
  im,            \* the InstructionMapping under construction
  im_pc,         \* "none", "building", "panicked"
  given          \* the argument of the last add_prerequisite_checks call

bundle_vars == <<programs, op, dry_run, opc, ophase, oi, handles, oj, result,
                 thread, calls, panic_log>>
instr_vars == <<instruction, run_dry, run_pc, run_res, run_fx>>
logger_vars == <<filters, channel, system_sender, logger, sent, received,
                 written, running, stopped, collector_pc, main_pc, command,
                 bundle_result, worker>>
matcher_vars == <<os_list, built, asked, answer, matcher_pc>>
builder_vars == <<pkg_mapping, added, im, im_pc, given>>
vars == <<bundle_vars, instr_vars, logger_vars, matcher_vars, builder_vars>>
\* what a bundle run leaves alone
outside_bundle == <<instr_vars, logger_vars, matcher_vars, builder_vars>>
\* what the logging pipeline leaves alone
outside_logger == <<bundle_vars, instr_vars, matcher_vars, builder_vars>>
\* what a single instruction run leaves alone
outside_instr == <<bundle_vars, logger_vars, matcher_vars, builder_vars>>
\* what the matcher leaves alone
outside_matcher == <<bundle_vars, instr_vars, logger_vars, builder_vars>>
\* what the builders leave alone
outside_builder == <<bundle_vars, instr_vars, logger_vars, matcher_vars>>

Workers == 1..NWorkers
\* The Logger handles: 0 is main_logger, k > 0 the one of worker k.
Handles == 0..NWorkers
Outputs == 1..NOutputs

Pkgs == 1..NPkg
Phases == {"install", "configure", "uninstall", "deconfigure"}
Min(a, b) == IF a < b THEN a ELSE b

(* ---------------------------------------------------------------------- *)
(* Instructions (manager/instructions.rs)                                 *)
(* ---------------------------------------------------------------------- *)
\* An instruction is its variant and whether its command string is blank
\* (split_whitespace() then yields an empty Vec).
AssertInstr(blank) == [kind |-> "Assert", blank |-> blank]
RunInstr(blank) == [kind |-> "Run", blank |-> blank]
\* The bundles of the model: a prerequisite check is an Assert, with a
\* command or with a blank one; a phase instruction is a Run with a command.
AssertInstrs == {AssertInstr(b) : b \in BOOLEAN}
Instrs == {RunInstr(FALSE)}

\* What the operating system answers when a command is spawned.
ProcOutcomes == {"spawn_error", "exit_nonzero", "exit_zero_mismatch",
                 "exit_zero_match"}

\* Variant: a dry run runs the command like a live run.
Assert_run_dry_spawns(inst, dry, proc) ==
  IF inst.blank THEN "Err"
  ELSE IF proc # "exit_zero_match" THEN "Err"
  ELSE "Ok"

\* Variant: the captured output is not looked at.
Assert_run_status_only(inst, dry, proc) ==
  IF inst.blank THEN "Err"
  ELSE IF dry THEN "Ok"
  ELSE IF proc \in {"spawn_error", "exit_nonzero"} THEN "Err"
  ELSE "Ok"

\* Assert::run
Assert_run(inst, dry, proc) ==
  IF inst.blank THEN "Err"                       \* "Empty command"
  ELSE IF dry THEN "Ok"
  ELSE IF proc = "spawn_error" THEN "Err"        \* cmd.output()?
  ELSE IF proc = "exit_nonzero" THEN "Err"       \* !status.success()
  ELSE IF proc = "exit_zero_mismatch" THEN "Err" \* !contains(expect)
  ELSE "Ok"

\* Run::run
Run_run(inst, dry, proc) ==
  IF inst.blank THEN "Err"
  ELSE IF dry THEN "Ok"
  ELSE IF proc = "spawn_error" THEN "Err"
  ELSE IF proc = "exit_nonzero" THEN "Err"
  ELSE "Ok"

\* impl AnyInstruction for Instructions: dispatch on the variant
Instructions_run(inst, dry, proc) ==
  IF inst.kind = "Assert" THEN Assert_run(inst, dry, proc)
  ELSE Run_run(inst, dry, proc)

(* ---------------------------------------------------------------------- *)
(* One call of run(dry_run), with what it does                            *)
(* ---------------------------------------------------------------------- *)
\* The instructions run() is called on in SpecInstr: every variant of the
\* enum Instructions, with the parameters run() branches on: a blank
\* command, the extension of the archive or of the downloaded file.
AllInstructions ==
  {AssertInstr(b) : b \in BOOLEAN} \cup {RunInstr(b) : b \in BOOLEAN}
  \cup {[kind |-> "WaitForCondition", blank |-> b] : b \in BOOLEAN}
  \cup {[kind |-> "ExtractArchive", ext |-> x] :
          x \in {"none", "zip", "gz", "bz2", "xz", "rar"}}
  \cup {[kind |-> "DownloadAndExec", ext |-> x] :
          x \in {"", "exe", "msi", "zip", "deb"}}
  \cup {[kind |-> k] :
          k \in {"DownloadTo", "AddEnvVar", "CreateShortcut",
                 "InstallApplication", "InstallPackage", "CloneRepository",
                 "RequestSudo", "RestartService", "BackupFile", "EditFile"}}

\* What the machine answers during one call: proc to the first command the
\* call spawns, rest ("Ok" or "Err") to everything it does after that
\* (later commands, environment variables, file writes), exists whether the
\* file it reads is there.
Environments ==
  [proc : ProcOutcomes, rest : {"Ok", "Err"}, exists : BOOLEAN]

Ran(proc) == proc # "spawn_error"
ExitZero(proc) == proc \in {"exit_zero_mismatch", "exit_zero_match"}

\* What a call returned and what it did, in order.
Ret(res, fx) == [res |-> res, fx |-> fx]

\* DownloadAndExec::run (built for a Unix target): the temporary path is
\* computed, then the dry_run test; curl, the match on the extension (only a
\* file without one is executed: exe and msi are for Windows, zip and the
\* rest are refused), the execution of the file, remove_file. Every Err
\* is a `return` or a `?` that leaves the function before remove_file.
DownloadAndExec_trace(inst, dry, e) ==
  IF dry THEN Ret("Ok", <<"print">>)
  ELSE IF ~Ran(e.proc) THEN Ret("Err", <<>>)
  ELSE IF ~ExitZero(e.proc) THEN Ret("Err", <<"spawn", "net">>)
  ELSE IF inst.ext # "" THEN Ret("Err", <<"spawn", "net", "fs_write">>)
  ELSE IF e.rest = "Err" THEN Ret("Err", <<"spawn", "net", "fs_write", "spawn">>)
  ELSE Ret("Ok", <<"spawn", "net", "fs_write", "spawn", "fs_remove">>)

\* Run::run
Run_trace(inst, dry, e) ==
  Ret(Run_run(inst, dry, e.proc),
      IF inst.blank THEN <<>>
      ELSE IF dry THEN <<"print">>
      ELSE IF Ran(e.proc) THEN <<"spawn">>
      ELSE <<>>)

\* DownloadTo::run
DownloadTo_trace(inst, dry, e) ==
  IF dry THEN Ret("Ok", <<"print">>)
  ELSE IF ~Ran(e.proc) THEN Ret("Err", <<>>)
  ELSE IF ~ExitZero(e.proc) THEN Ret("Err", <<"spawn", "net">>)
  ELSE Ret("Ok", <<"spawn", "net", "fs_write">>)

\* Assert::run
Assert_trace(inst, dry, e) ==
  Ret(Assert_run(inst, dry, e.proc),
      IF inst.blank THEN <<>>
      ELSE IF dry THEN <<"print">>
      ELSE IF Ran(e.proc) THEN <<"spawn">>
      ELSE <<>>)

\* The extensions ExtractArchive::run has an extraction tool for.
ArchiveFormats == {"zip", "gz", "tgz", "bz2", "tbz2", "xz", "txz"}

\* Variant: the destination directory is created before the dry_run test.
ExtractArchive_trace_mkdir_first(inst, dry, e) ==
  IF inst.ext = "none" THEN Ret("Err", <<>>)
  ELSE IF dry THEN Ret("Ok", <<"fs_write", "print">>)
  ELSE IF inst.ext \notin ArchiveFormats THEN Ret("Err", <<"fs_write">>)
  ELSE IF ~Ran(e.proc) THEN Ret("Err", <<"fs_write">>)
  ELSE Ret("Ok", <<"fs_write", "spawn">>)

\* ExtractArchive::run: the extension is taken (`?` on none), then the
\* dry_run test, create_dir_all, the match on the extension; the exit
\* status of the extraction tool is not looked at.
ExtractArchive_trace(inst, dry, e) ==
  IF inst.ext = "none" THEN Ret("Err", <<>>)
  ELSE IF dry THEN Ret("Ok", <<"print">>)
  ELSE IF e.rest = "Err" THEN Ret("Err", <<>>)          \* create_dir_all(..)?
  ELSE IF inst.ext \notin ArchiveFormats THEN Ret("Err", <<"fs_write">>)
  ELSE IF ~Ran(e.proc) THEN Ret("Err", <<"fs_write">>)
  ELSE Ret("Ok", <<"fs_write", "spawn">>)

\* AddEnvVar::run: setx (status not looked at), then the line appended to
\* $HOME/.bashrc.
AddEnvVar_trace(inst, dry, e) ==
  IF dry THEN Ret("Ok", <<"print">>)
  ELSE IF ~Ran(e.proc) THEN Ret("Err", <<>>)
  ELSE IF e.rest = "Err" THEN Ret("Err", <<"spawn">>)
  ELSE Ret("Ok", <<"spawn", "fs_write">>)

\* CreateShortcut::run: powershell, then the .desktop file and chmod.
CreateShortcut_trace(inst, dry, e) ==
  IF dry THEN Ret("Ok", <<"print">>)
  ELSE IF ~Ran(e.proc) THEN Ret("Err", <<>>)
  ELSE IF e.rest = "Err" THEN Ret("Err", <<"spawn">>)
  ELSE Ret("Ok", <<"spawn", "fs_write", "spawn">>)

\* WaitForCondition::run: the dry_run test comes first, the empty command is
\* only seen inside the polling loop; a poll that exits with zero ends the
\* wait, the others lead to the timeout.
WaitForCondition_trace(inst, dry, e) ==
  IF dry THEN Ret("Ok", <<"print">>)
  ELSE IF inst.blank THEN Ret("Err", <<>>)
  ELSE IF ~Ran(e.proc) THEN Ret("Err", <<>>)
  ELSE IF ~ExitZero(e.proc) THEN Ret("Err", <<"spawn">>)
  ELSE Ret("Ok", <<"spawn">>)

\* InstallApplication::run and InstallPackage::run: the availability probe
\* of a manager, its install command (proc), the managers after it (rest).
InstallApplication_trace(inst, dry, e) ==
  IF dry THEN Ret("Ok", <<"print">>)
  ELSE IF ~Ran(e.proc) THEN Ret("Err", <<"spawn">>)
  ELSE IF ExitZero(e.proc) THEN Ret("Ok", <<"spawn", "spawn", "net", "fs_write">>)
  ELSE IF e.rest = "Ok"
    THEN Ret("Ok", <<"spawn", "spawn", "spawn", "spawn", "net", "fs_write">>)
  ELSE Ret("Err", <<"spawn", "spawn">>)

InstallPackage_trace(inst, dry, e) == InstallApplication_trace(inst, dry, e)

\* CloneRepository::run
CloneRepository_trace(inst, dry, e) ==
  IF dry THEN Ret("Ok", <<"print">>)
  ELSE IF ~Ran(e.proc) THEN Ret("Err", <<>>)
  ELSE IF ~ExitZero(e.proc) THEN Ret("Err", <<"spawn", "net">>)
  ELSE Ret("Ok", <<"spawn", "net", "fs_write">>)

\* RequestSudo::run: println!, sudo -v (status not looked at), println!
RequestSudo_trace(inst, dry, e) ==
  IF dry THEN Ret("Ok", <<"print">>)
  ELSE IF ~Ran(e.proc) THEN Ret("Err", <<"print">>)
  ELSE Ret("Ok", <<"print", "spawn", "print">>)

\* RestartService::run: sc stop, sc start, then the service manager found
\* by probing (rest: none found, or its command could not be spawned).
RestartService_trace(inst, dry, e) ==
  IF dry THEN Ret("Ok", <<"print">>)
  ELSE IF ~Ran(e.proc) THEN Ret("Err", <<>>)
  ELSE IF e.rest = "Err" THEN Ret("Err", <<"spawn", "spawn", "spawn">>)
  ELSE Ret("Ok", <<"spawn", "spawn", "spawn", "spawn">>)

\* BackupFile::run: nothing to back up is Ok; else fs::copy and println!
BackupFile_trace(inst, dry, e) ==
  IF dry THEN Ret("Ok", <<"print">>)
  ELSE IF ~e.exists THEN Ret("Ok", <<>>)
  ELSE IF e.rest = "Err" THEN Ret("Err", <<>>)
  ELSE Ret("Ok", <<"fs_write", "print">>)

\* EditFile::run: read_to_string, replace, fs::write
EditFile_trace(inst, dry, e) ==
  IF dry THEN Ret("Ok", <<"print">>)
  ELSE IF ~e.exists THEN Ret("Err", <<>>)
  ELSE IF e.rest = "Err" THEN Ret("Err", <<>>)
  ELSE Ret("Ok", <<"fs_write">>)

\* impl AnyInstruction for Instructions: the match over the fifteen variants
Instructions_trace(inst, dry, e) ==
  CASE inst.kind = "DownloadAndExec" -> DownloadAndExec_trace(inst, dry, e)
    [] inst.kind = "Run" -> Run_trace(inst, dry, e)
    [] inst.kind = "DownloadTo" -> DownloadTo_trace(inst, dry, e)
    [] inst.kind = "Assert" -> Assert_trace(inst, dry, e)
    [] inst.kind = "ExtractArchive" -> ExtractArchive_trace(inst, dry, e)
    [] inst.kind = "AddEnvVar" -> AddEnvVar_trace(inst, dry, e)
    [] inst.kind = "CreateShortcut" -> CreateShortcut_trace(inst, dry, e)
    [] inst.kind = "WaitForCondition" -> WaitForCondition_trace(inst, dry, e)
    [] inst.kind = "InstallApplication" -> InstallApplication_trace(inst, dry, e)
    [] inst.kind = "InstallPackage" -> InstallPackage_trace(inst, dry, e)
    [] inst.kind = "CloneRepository" -> CloneRepository_trace(inst, dry, e)
    [] inst.kind = "RequestSudo" -> RequestSudo_trace(inst, dry, e)
    [] inst.kind = "RestartService" -> RestartService_trace(inst, dry, e)
    [] inst.kind = "BackupFile" -> BackupFile_trace(inst, dry, e)
    [] inst.kind = "EditFile" -> EditFile_trace(inst, dry, e)

(* ---------------------------------------------------------------------- *)
(* Bundles                                                                *)
(* ---------------------------------------------------------------------- *)
RECURSIVE SeqsOfLen(_, _)
SeqsOfLen(S, n) ==
  IF n = 0 THEN {<<>>}
  ELSE {Append(s, x) : s \in SeqsOfLen(S, n - 1), x \in S}
SeqsUpTo(S, n) == UNION {SeqsOfLen(S, k) : k \in 0..n}

\* InstructionMapping::new(): five empty lists
InstructionMapping_new ==
  [prerequisite_checks |-> <<>>, install |-> <<>>, uninstall |-> <<>>,
   configuration |-> <<>>, deconfiguration |-> <<>>]

\* A package as the orchestrator sees it: program.mapping.get(os) is
\* Some(mapping) (mapped) or None.
NoMapping == [mapped |-> FALSE, m |-> InstructionMapping_new]
Size(pkg) ==
  Len(pkg.m.prerequisite_checks) + Len(pkg.m.install) + Len(pkg.m.uninstall)
    + Len(pkg.m.configuration) + Len(pkg.m.deconfiguration)

\* The packages with at most b instructions: built with the builder methods
\* add_prerequisite_checks (Assert only) and add_*_instructions.
PackagesUpTo(b) ==
  {NoMapping} \cup
  UNION {UNION {UNION {UNION {
    {[mapped |-> TRUE,
      m |-> [prerequisite_checks |-> c, install |-> i, uninstall |-> u,
             configuration |-> g, deconfiguration |-> d]]
       : d \in SeqsUpTo(Instrs,
                 Min(MaxLen, b - Len(c) - Len(i) - Len(u) - Len(g)))}
       : g \in SeqsUpTo(Instrs, Min(MaxLen, b - Len(c) - Len(i) - Len(u)))}
       : u \in SeqsUpTo(Instrs, Min(MaxLen, b - Len(c) - Len(i)))}
       : i \in SeqsUpTo(Instrs, Min(MaxLen, b - Len(c)))}
       : c \in SeqsUpTo(AssertInstrs, Min(MaxChecks, b))}

RECURSIVE TotalSize(_)
TotalSize(s) == IF s = <<>> THEN 0 ELSE Size(Head(s)) + TotalSize(Tail(s))

\* SoftwareBundle::new().add_program(..)...: n packages, at most b instructions
RECURSIVE BundlesOf(_, _)
BundlesOf(n, b) ==
  IF n = 0 THEN {<<>>}
  ELSE UNION {{Append(s, pkg) : pkg \in PackagesUpTo(b - TotalSize(s))}
                : s \in BundlesOf(n - 1, b)}

(* ---------------------------------------------------------------------- *)
(* The orchestrator                                                       *)
(* ---------------------------------------------------------------------- *)
\* install(): installer then configurator; uninstall(): uninstaller then
\* deconfigurator (the order of the two calls in the function bodies).
PhaseOrder(o) ==
  IF o = "install" THEN <<"install", "configure">>
  ELSE <<"uninstall", "deconfigure">>

Phase == PhaseOrder(op)[ophase]

\* The field of the mapping a phase's worker iterates.
ListName(ph) ==
  CASE ph = "install" -> "install"
    [] ph = "configure" -> "configuration"
    [] ph = "uninstall" -> "uninstall"
    [] ph = "deconfigure" -> "deconfiguration"

PhaseList(ph, m) == m[ListName(ph)]

\* Variant: configurator skips the packages of a bundle in which some install
\* instruction failed.
SpawnsUnlessFailed(ph, pkg) ==
  IF ph = "install" THEN TRUE
  ELSE /\ pkg.mapped
       /\ pkg.m[ListName(ph)] # <<>>
       /\ \A q \in Pkgs : \A n \in 1..Len(calls["install"][q]) :
            calls["install"][q][n].list = "install"
              => calls["install"][q][n].res = "Ok"

\* Variant: configurator spawns for a package only when the install worker
\* of that package ran its install list to the end.
SpawnsIfInstalled(ph, pkg) ==
  IF ph = "install" THEN TRUE
  ELSE /\ pkg.mapped
       /\ pkg.m[ListName(ph)] # <<>>
       /\ ph = "configure" =>
            /\ calls["install"][oi] # <<>>
            /\ calls["install"][oi][Len(calls["install"][oi])] =
                 [list |-> "install", idx |-> Len(pkg.m.install),
                  dry |-> dry_run, res |-> "Ok"]

\* Variant: the spawn loops of the later phases forget the is_empty() test.
SpawnsIfMapped(ph, pkg) ==
  IF ph = "install" THEN TRUE ELSE pkg.mapped

\* Whether the spawn loop of phase ph spawns a thread for package pkg.
\* installer spawns for every program; the other three only when the
\* mapping exists and the phase's list is not empty.
Spawns(ph, pkg) ==
  IF ph = "install" THEN TRUE
  ELSE pkg.mapped /\ PhaseList(ph, pkg.m) # <<>>

NotSpawned ==
  [st |-> "none", k |-> 0, ret |-> "none", joined |-> FALSE,
   program |-> NoMapping]

\* Variant: the mapping is moved out of the package instead of copied.
Package_clone_taken(pkg) == NoMapping

\* `let program = program.clone()`: the copy the worker thread owns
Package_clone(pkg) == pkg

\* No program is running around the logger.
LoggerIdle ==
  /\ filters = <<>>
  /\ channel = <<>>
  /\ system_sender = FALSE
  /\ logger = [h \in Handles |-> "none"]
  /\ sent = [h \in Handles |-> <<>>]
  /\ received = <<>>
  /\ written = <<>>
  /\ running = FALSE
  /\ stopped = FALSE
  /\ collector_pc = "none"
  /\ main_pc = "none"
  /\ command = "none"
  /\ bundle_result = "none"
  /\ worker = [k \in Workers |-> "none"]

\* No matcher has been made.
MatcherIdle ==
  /\ os_list = <<>>
  /\ built = <<"none">>
  /\ asked = "none"
  /\ answer = FALSE
  /\ matcher_pc = "none"

\* No package is being built.
BuilderIdle ==
  /\ pkg_mapping = <<>>
  /\ added = <<>>
  /\ im = [id |-> 0, prerequisite_checks |-> <<>>]
  /\ im_pc = "none"
  /\ given = <<>>

\* No instruction is being run on its own.
InstrIdle ==
  /\ instruction = [kind |-> "none"]
  /\ run_dry = FALSE
  /\ run_pc = "idle"
  /\ run_res = "none"
  /\ run_fx = <<>>

Init ==
  /\ programs \in BundlesOf(NPkg, MaxTotal)
  /\ op \in {"install", "uninstall"}
  /\ dry_run \in BOOLEAN
  /\ opc = "spawn"
  /\ ophase = 1
  /\ oi = 1
  /\ handles = <<>>
  /\ oj = 1
  /\ result = "none"
  /\ thread = [ph \in Phases |-> [p \in Pkgs |-> NotSpawned]]
  /\ calls = [ph \in Phases |-> [p \in Pkgs |-> <<>>]]
  /\ panic_log = {}
  /\ InstrIdle
  /\ LoggerIdle
  /\ MatcherIdle
  /\ BuilderIdle

\* Variant: a program's thread is spawned only once the threads spawned
\* before it have terminated (the packages are handled one after another).
SpawnLoopOneByOne(ph) ==
  /\ opc = "spawn"
  /\ Phase = ph
  /\ oi <= NPkg
  /\ \A n \in 1..Len(handles) :
       thread[ph][handles[n]].st \in {"returned", "panicked"}
  /\ IF Spawns(ph, programs[oi])
       THEN /\ thread' = [thread EXCEPT
                         ![ph][oi].st = "spawned",
                         ![ph][oi].program = Package_clone(programs[oi])]
            /\ handles' = Append(handles, oi)
       ELSE UNCHANGED <<thread, handles>>
  /\ oi' = oi + 1
  /\ opc' = IF oi = NPkg THEN "join" ELSE "spawn"
  /\ oj' = 1
  /\ UNCHANGED <<programs, op, dry_run, ophase, result, calls, panic_log>>
  /\ UNCHANGED outside_bundle

\* One iteration of `for program in &self.programs` of phase ph; after the
\* last program the function goes on to its join loop.
SpawnLoop(ph) ==
  /\ opc = "spawn"
  /\ Phase = ph
  /\ oi <= NPkg
  /\ IF Spawns(ph, programs[oi])
       THEN /\ thread' = [thread EXCEPT
                         ![ph][oi].st = "spawned",
                         ![ph][oi].program = Package_clone(programs[oi])]
            /\ handles' = Append(handles, oi)
       ELSE UNCHANGED <<thread, handles>>
  /\ oi' = oi + 1
  /\ opc' = IF oi = NPkg THEN "join" ELSE "spawn"
  /\ oj' = 1
  /\ UNCHANGED <<programs, op, dry_run, ophase, result, calls, panic_log>>
  /\ UNCHANGED outside_bundle

\* handle.join(): blocks until the thread has terminated; Err(e) exactly
\* when the thread panicked.
JoinResult(t) == IF t.st = "panicked" THEN "Err" ELSE "Ok"

\* Variant: join does not wait for the thread to terminate.
JoinLoopNoWait(ph) ==
  /\ opc = "join"
  /\ Phase = ph
  /\ oj <= Len(handles)
  /\ thread' = [thread EXCEPT ![ph][handles[oj]].joined = TRUE]
  /\ oj' = oj + 1
  /\ UNCHANGED <<programs, op, dry_run, opc, ophase, oi, handles, result,
                 calls, panic_log>>
  /\ UNCHANGED outside_bundle

\* Variant: the join loop leaves at the first panicked thread.
JoinLoopStopsOnPanic(ph) ==
  /\ opc = "join"
  /\ Phase = ph
  /\ oj <= Len(handles)
  /\ LET p == handles[oj] IN
       /\ thread[ph][p].st \in {"returned", "panicked"}
       /\ thread' = [thread EXCEPT ![ph][p].joined = TRUE]
       /\ IF JoinResult(thread[ph][p]) = "Err"
            THEN /\ panic_log' = panic_log \cup {<<ph, p>>}
                 /\ oj' = Len(handles) + 1
            ELSE /\ panic_log' = panic_log
                 /\ oj' = oj + 1
  /\ UNCHANGED <<programs, op, dry_run, opc, ophase, oi, handles, result,
                 calls>>
  /\ UNCHANGED outside_bundle

\* Variant: join returns only for a thread that returned; a panicked thread
\* is waited for without end.
JoinLoopWaitsForReturn(ph) ==
  /\ opc = "join"
  /\ Phase = ph
  /\ oj <= Len(handles)
  /\ thread[ph][handles[oj]].st = "returned"
  /\ thread' = [thread EXCEPT ![ph][handles[oj]].joined = TRUE]
  /\ oj' = oj + 1
  /\ UNCHANGED <<programs, op, dry_run, opc, ophase, oi, handles, result,
                 calls, panic_log>>
  /\ UNCHANGED outside_bundle

\* One iteration of `for handle in handles`.
JoinLoop(ph) ==
  /\ opc = "join"
  /\ Phase = ph
  /\ oj <= Len(handles)
  /\ LET p == handles[oj] IN
       /\ thread[ph][p].st \in {"returned", "panicked"}
       /\ thread' = [thread EXCEPT ![ph][p].joined = TRUE]
       /\ panic_log' = IF JoinResult(thread[ph][p]) = "Err"
                         THEN panic_log \cup {<<ph, p>>}   \* eprintln!
                         ELSE panic_log
  /\ oj' = oj + 1
  /\ UNCHANGED <<programs, op, dry_run, opc, ophase, oi, handles, result,
                 calls>>
  /\ UNCHANGED outside_bundle

\* Variant: a phase function returns Err when a thread panicked.
PhaseReturnPropagates(ph, logged) ==
  IF \E e \in logged : e[1] = ph THEN "Err" ELSE "Ok"

\* The value a phase function returns after its join loop: Ok(()).
PhaseReturn(ph, logged) == "Ok"

\* The end of a phase function and the `?` applied to it in install() /
\* uninstall(): an Err returns at once, an Ok goes on to the second phase
\* or to the final Ok(()).
PhaseEnd(ph) ==
  /\ opc = "join"
  /\ Phase = ph
  /\ oj > Len(handles)
  /\ LET r == PhaseReturn(ph, panic_log) IN
       IF r = "Err"
         THEN /\ opc' = "ret"
              /\ result' = "Err"
              /\ UNCHANGED <<ophase, oi, handles, oj>>
         ELSE IF ophase = 1
           THEN /\ ophase' = 2
                /\ opc' = "spawn"
                /\ oi' = 1
                /\ handles' = <<>>
                /\ oj' = 1
                /\ UNCHANGED result
           ELSE /\ opc' = "ret"
                /\ result' = "Ok"
                /\ UNCHANGED <<ophase, oi, handles, oj>>
  /\ UNCHANGED <<programs, op, dry_run, thread, calls, panic_log>>
  /\ UNCHANGED outside_bundle

(* ---------------------------------------------------------------------- *)
(* The worker threads                                                     *)
(* ---------------------------------------------------------------------- *)
\* Variant: the second phase of an operation is called with a literal false.
PhaseDryRunSecondLive(ph) ==
  IF ph \in {"configure", "deconfigure"} THEN FALSE ELSE dry_run

\* The dry_run argument of a phase function: install() / uninstall() pass
\* their own dry_run to both phase calls, the phase function's closures move
\* it into the threads, and the threads pass it to every run().
PhaseDryRun(ph) == dry_run

\* One instruction invocation, as the worker made it: run(dry) returned r.
Call(list, k, dry, r) == [list |-> list, idx |-> k, dry |-> dry, res |-> r]

\* Entering `for instruction in &list`: an empty list falls through to the
\* end of the function.
EnterLoop(t, list, ret) ==
  IF list = <<>> THEN [t EXCEPT !.st = "returned", !.ret = ret]
  ELSE [t EXCEPT !.st = "run", !.k = 1]

\* Variant: a successful check does not end the thread (the checks are
\* all run, then the install instructions).
AfterCheckIgnoresOk(t, m, r) ==
  IF t.k < Len(m.prerequisite_checks) THEN [t EXCEPT !.k = t.k + 1]
  ELSE EnterLoop(t, m.install, "unit")

\* Variant: a failing check ends the thread.
AfterCheckErrStops(t, m, r) ==
  [t EXCEPT !.st = "returned", !.ret = "unit"]

\* installer_thread after a prerequisite check returned r: Ok ends the
\* thread, Err goes on to the next check and, after the last one, to the
\* install instructions.
AfterCheck(t, m, r) ==
  IF r = "Ok" THEN [t EXCEPT !.st = "returned", !.ret = "unit"]
  ELSE IF t.k < Len(m.prerequisite_checks) THEN [t EXCEPT !.k = t.k + 1]
  ELSE EnterLoop(t, m.install, "unit")

\* Variant: a failing instruction is run a second time before the worker
\* gives up.
AfterInstructionRetriesOnce(t, list, r, okRet, errRet) ==
  IF r = "Err" /\ t.ret = "none" THEN [t EXCEPT !.ret = "retried"]
  ELSE IF r = "Err" THEN [t EXCEPT !.st = "returned", !.ret = errRet]
  ELSE IF t.k < Len(list) THEN [t EXCEPT !.k = t.k + 1]
  ELSE [t EXCEPT !.st = "returned", !.ret = okRet]

\* Variant: a failing instruction does not end the list.
AfterInstructionContinues(t, list, r, okRet, errRet) ==
  IF t.k < Len(list) THEN [t EXCEPT !.k = t.k + 1]
  ELSE [t EXCEPT !.st = "returned", !.ret = IF r = "Err" THEN errRet ELSE okRet]

\* A worker after an instruction of its list returned r: Err ends the
\* thread (with errRet), Ok goes on to the next instruction and, after the
\* last one, ends the thread (with okRet).
AfterInstruction(t, list, r, okRet, errRet) ==
  IF r = "Err" THEN [t EXCEPT !.st = "returned", !.ret = errRet]
  ELSE IF t.k < Len(list) THEN [t EXCEPT !.k = t.k + 1]
  ELSE [t EXCEPT !.st = "returned", !.ret = okRet]

\* Variant: a missing mapping ends the thread silently instead of panicking.
installer_lookup_silent(t, pkg) ==
  IF t.st # "spawned" THEN t
  ELSE IF ~pkg.mapped THEN [t EXCEPT !.st = "returned", !.ret = "unit"]
  ELSE IF pkg.m.prerequisite_checks # <<>>
    THEN [t EXCEPT !.st = "checks", !.k = 1]
  ELSE EnterLoop(t, pkg.m.install, "unit")

\* The start of installer_thread, for a thread that has not run it yet:
\* program.mapping.get(os).expect(..) panics without a mapping; then the
\* prerequisite checks if there are any, else the install loop.
installer_lookup(t, pkg) ==
  IF t.st # "spawned" THEN t
  ELSE IF ~pkg.mapped THEN [t EXCEPT !.st = "panicked"]
  ELSE IF pkg.m.prerequisite_checks # <<>>
    THEN [t EXCEPT !.st = "checks", !.k = 1]
  ELSE EnterLoop(t, pkg.m.install, "unit")

\* check.run(dry_run) for the next prerequisite check
installer_check(p, t) ==
  \E proc \in ProcOutcomes :
    LET m == t.program.m
        r == Instructions_run(m.prerequisite_checks[t.k], PhaseDryRun("install"), proc) IN
      /\ calls' = [calls EXCEPT !["install"][p] =
                     Append(@, Call("prerequisite_checks", t.k,
                                    PhaseDryRun("install"), r))]
      /\ thread' = [thread EXCEPT !["install"][p] = AfterCheck(t, m, r)]

\* Variant: the install loop goes on after a failing instruction.
installer_run_continues(p, t) ==
  \E proc \in ProcOutcomes :
    LET list == t.program.m.install
        r == Instructions_run(list[t.k], PhaseDryRun("install"), proc) IN
      /\ calls' = [calls EXCEPT !["install"][p] =
                     Append(@, Call("install", t.k,
                                    PhaseDryRun("install"), r))]
      /\ thread' = [thread EXCEPT !["install"][p] =
                      IF t.k < Len(list) THEN [t EXCEPT !.k = t.k + 1]
                      ELSE [t EXCEPT !.st = "returned", !.ret = "unit"]]

\* instruction.run(dry_run) for the next install instruction
installer_run(p, t) ==
  \E proc \in ProcOutcomes :
    LET list == t.program.m.install
        r == Instructions_run(list[t.k], PhaseDryRun("install"), proc) IN
      /\ calls' = [calls EXCEPT !["install"][p] =
                     Append(@, Call("install", t.k,
                                    PhaseDryRun("install"), r))]
      /\ thread' = [thread EXCEPT !["install"][p] =
                      AfterInstruction(t, list, r, "unit", "unit")]

\* One step of the install worker of package p: from where the thread is
\* to the end of its next instruction invocation, or to its end.
installer_thread(p) ==
  /\ thread["install"][p].st \in {"spawned", "checks", "run"}
  /\ LET t == installer_lookup(thread["install"][p],
                               thread["install"][p].program) IN
       CASE t.st = "checks" -> installer_check(p, t)
         [] t.st = "run" -> installer_run(p, t)
         [] OTHER -> /\ thread' = [thread EXCEPT !["install"][p] = t]
                     /\ UNCHANGED calls
  /\ UNCHANGED <<programs, op, dry_run, opc, ophase, oi, handles, oj, result,
                 panic_log>>
  /\ UNCHANGED outside_bundle

\* configurator_thread, uninstaller_thread and deconfigurator_thread: the
\* same body over the phase's own list, with a Result as return value.
phase_lookup(ph, t, pkg) ==
  IF t.st # "spawned" THEN t
  ELSE IF ~pkg.mapped THEN [t EXCEPT !.st = "panicked"]
  ELSE EnterLoop(t, PhaseList(ph, pkg.m), "Ok")

phase_run(ph, p, t) ==
  \E proc \in ProcOutcomes :
    LET list == PhaseList(ph, t.program.m)
        r == Instructions_run(list[t.k], PhaseDryRun(ph), proc) IN
      /\ calls' = [calls EXCEPT ![ph][p] =
                     Append(@, Call(ListName(ph), t.k, PhaseDryRun(ph), r))]
      /\ thread' = [thread EXCEPT ![ph][p] =
                      AfterInstruction(t, list, r, "Ok", "Err")]

phase_thread(ph, p) ==
  /\ thread[ph][p].st \in {"spawned", "run"}
  /\ LET t == phase_lookup(ph, thread[ph][p], thread[ph][p].program) IN
       CASE t.st = "run" -> phase_run(ph, p, t)
         [] OTHER -> /\ thread' = [thread EXCEPT ![ph][p] = t]
                     /\ UNCHANGED calls
  /\ UNCHANGED <<programs, op, dry_run, opc, ophase, oi, handles, oj, result,
                 panic_log>>
  /\ UNCHANGED outside_bundle

configurator_thread(p) == phase_thread("configure", p)
uninstaller_thread(p) == phase_thread("uninstall", p)
deconfigurator_thread(p) == phase_thread("deconfigure", p)

installer == SpawnLoop("install") \/ JoinLoop("install") \/ PhaseEnd("install")
configurator ==
  SpawnLoop("configure") \/ JoinLoop("configure") \/ PhaseEnd("configure")
uninstaller ==
  SpawnLoop("uninstall") \/ JoinLoop("uninstall") \/ PhaseEnd("uninstall")
deconfigurator ==
  \/ SpawnLoop("deconfigure")
  \/ JoinLoop("deconfigure")
  \/ PhaseEnd("deconfigure")

Next ==
  \/ installer
  \/ configurator
  \/ uninstaller
  \/ deconfigurator
  \/ \E p \in Pkgs : installer_thread(p)
  \/ \E p \in Pkgs : configurator_thread(p)
  \/ \E p \in Pkgs : uninstaller_thread(p)
  \/ \E p \in Pkgs : deconfigurator_thread(p)

Spec == Init /\ [][Next]_vars

\* The bundle runs of Spec over the smaller bundles, with the main thread and
\* every spawned worker thread scheduled and every instruction invocation
\* returning.
InitFair ==
  /\ programs \in BundlesOf(NPkg, MaxFairTotal)
  /\ op \in {"install", "uninstall"}
  /\ dry_run \in BOOLEAN
  /\ opc = "spawn"
  /\ ophase = 1
  /\ oi = 1
  /\ handles = <<>>
  /\ oj = 1
  /\ result = "none"
  /\ thread = [ph \in Phases |-> [p \in Pkgs |-> NotSpawned]]
  /\ calls = [ph \in Phases |-> [p \in Pkgs |-> <<>>]]
  /\ panic_log = {}
  /\ InstrIdle
  /\ LoggerIdle
  /\ MatcherIdle
  /\ BuilderIdle

FairSpec ==
  /\ InitFair
  /\ [][Next]_vars
  /\ WF_vars(installer \/ configurator \/ uninstaller \/ deconfigurator)
  /\ \A p \in Pkgs :
       /\ WF_vars(installer_thread(p))
       /\ WF_vars(configurator_thread(p))
       /\ WF_vars(uninstaller_thread(p))
       /\ WF_vars(deconfigurator_thread(p))

(* ---------------------------------------------------------------------- *)
(* SpecInstr: one call of run(dry_run)                                    *)
(* ---------------------------------------------------------------------- *)
\* No bundle operation is running.
BundleIdle ==
  /\ programs = [p \in Pkgs |-> NoMapping]
  /\ op = "install"
  /\ dry_run = FALSE
  /\ opc = "ret"
  /\ ophase = 1
  /\ oi = 1
  /\ handles = <<>>
  /\ oj = 1
  /\ result = "none"
  /\ thread = [ph \in Phases |-> [p \in Pkgs |-> NotSpawned]]
  /\ calls = [ph \in Phases |-> [p \in Pkgs |-> <<>>]]
  /\ panic_log = {}

InitInstr ==
  /\ instruction \in AllInstructions
  /\ run_dry \in BOOLEAN
  /\ run_pc = "called"
  /\ run_res = "none"
  /\ run_fx = <<>>
  /\ BundleIdle
  /\ LoggerIdle
  /\ MatcherIdle
  /\ BuilderIdle

\* instruction.run(run_dry), from the call to the return
AnyInstruction_run ==
  /\ run_pc = "called"
  /\ \E e \in Environments :
       LET r == Instructions_trace(instruction, run_dry, e) IN
         /\ run_res' = r.res
         /\ run_fx' = r.fx
  /\ run_pc' = "returned"
  /\ UNCHANGED <<instruction, run_dry>>
  /\ UNCHANGED outside_instr

NextInstr == AnyInstruction_run

SpecInstr == InitInstr /\ [][NextInstr]_vars

(* ---------------------------------------------------------------------- *)
(* SpecLive: run(false) of Assert, WaitForCondition, InstallApplication   *)
(* and InstallPackage, command by command. run_fx is the log of the       *)
(* commands the call spawned and of what the machine answered.            *)
(* ---------------------------------------------------------------------- *)
\* The package_managers arrays, in their order; `go` is the special case
\* after the loop of InstallPackage::run. (Non-Windows build.)
PackageManagers(kind) ==
  IF kind = "InstallApplication"
    THEN <<"apt", "yum", "dnf", "pacman", "zypper", "brew">>
    ELSE <<"npm", "yarn", "bun", "pnpm", "cargo", "pipx", "pip", "gem", "go">>

LiveInstructions ==
  {AssertInstr(b) : b \in BOOLEAN}
  \cup {[kind |-> "WaitForCondition", blank |-> b, timeout_secs |-> t] :
          b \in BOOLEAN, t \in 0..MaxTimeout}
  \cup {[kind |-> "InstallApplication"], [kind |-> "InstallPackage"]}

InitLive ==
  /\ instruction \in LiveInstructions
  /\ run_dry = FALSE
  /\ run_pc = "called"
  /\ run_res = "none"
  /\ run_fx = <<>>
  /\ BundleIdle
  /\ LoggerIdle
  /\ MatcherIdle
  /\ BuilderIdle

\* What cmd.output() gave: the process outcome Assert::run branches on.
OutputOf(spawned, success, contains) ==
  IF ~spawned THEN "spawn_error"
  ELSE IF ~success THEN "exit_nonzero"
  ELSE IF ~contains THEN "exit_zero_mismatch"
  ELSE "exit_zero_match"

\* Assert::run(false): one command, its exit status and its captured output
Assert_live ==
  /\ run_pc = "called"
  /\ instruction.kind = "Assert"
  /\ IF instruction.blank
       THEN /\ run_fx' = <<>>
            /\ run_res' = Assert_run(instruction, FALSE, "spawn_error")
       ELSE \E spawned, success, contains \in BOOLEAN :
              /\ spawned \/ ~success
              /\ run_fx' = <<[act |-> "output", spawned |-> spawned,
                              success |-> success, contains |-> contains]>>
              /\ run_res' = Assert_run(instruction, FALSE,
                                       OutputOf(spawned, success, contains))
  /\ run_pc' = "returned"
  /\ UNCHANGED <<instruction, run_dry>>
  /\ UNCHANGED outside_instr

\* start.elapsed(), in whole seconds: the end of the last poll or sleep
Elapsed == IF run_fx = <<>> THEN 0 ELSE run_fx[Len(run_fx)].end

\* Variant: the loop is left only when the timeout is exceeded.
WaitForCondition_expired_late(elapsed, timeout) == elapsed > timeout

\* `while start.elapsed() < timeout`, negated
WaitForCondition_expired(elapsed, timeout) == ~(elapsed < timeout)

\* WaitForCondition::run(false): the loop test and one pass of the loop
\* body (the check command, which runs for d seconds, then sleep(1 s)),
\* or the timeout error after the loop.
WaitForCondition_live ==
  /\ run_pc = "called"
  /\ instruction.kind = "WaitForCondition"
  /\ IF WaitForCondition_expired(Elapsed, instruction.timeout_secs)
       THEN /\ run_res' = "ErrTimeout"
            /\ run_pc' = "returned"
            /\ UNCHANGED run_fx
     ELSE IF instruction.blank
       THEN /\ run_res' = "ErrEmpty"
            /\ run_pc' = "returned"
            /\ UNCHANGED run_fx
     ELSE \E d \in 0..MaxPoll :
          \E status \in {"spawn_error", "exit_nonzero", "exit_zero"} :
            LET poll == [act |-> "poll", start |-> Elapsed,
                         end |-> Elapsed + d, status |-> status]
                sleep == [act |-> "sleep", start |-> Elapsed + d,
                          end |-> Elapsed + d + 1, status |-> "none"] IN
              IF status = "exit_zero"
                THEN /\ run_fx' = Append(run_fx, poll)
                     /\ run_res' = "Ok"
                     /\ run_pc' = "returned"
                ELSE /\ run_fx' = run_fx \o <<poll, sleep>>
                     /\ UNCHANGED <<run_res, run_pc>>
  /\ UNCHANGED <<instruction, run_dry>>
  /\ UNCHANGED outside_instr

\* The managers probed so far.
Probed == Cardinality({n \in 1..Len(run_fx) : run_fx[n].act = "probe"})

\* Variant: a failed install command ends the search.
AfterInstall_gives_up(status) ==
  IF status = "exit_zero" THEN "Ok" ELSE "Err"

\* After the install command of an available manager: `?` on a spawn error,
\* return Ok(()) on success, else the next manager.
AfterInstall(status) ==
  IF status = "spawn_error" THEN "Err"
  ELSE IF status = "exit_zero" THEN "Ok"
  ELSE "next"

\* One pass of `for (pm, args) in &package_managers`: the availability
\* probe and, if it succeeded, the install command; after the last manager
\* the "No suitable package manager found" error.
ProbeAndInstall(managers) ==
  IF Probed = Len(managers)
    THEN /\ run_res' = "Err"
         /\ run_pc' = "returned"
         /\ UNCHANGED run_fx
    ELSE LET pm == managers[Probed + 1] IN
      \E available \in BOOLEAN :
      \E status \in {"spawn_error", "exit_nonzero", "exit_zero"} :
        LET probe == [act |-> "probe", pm |-> pm,
                      status |-> IF available THEN "exit_zero"
                                 ELSE status]
            install == [act |-> "install", pm |-> pm, status |-> status] IN
          IF ~available
            THEN /\ status # "exit_zero"
                 /\ run_fx' = Append(run_fx, probe)
                 /\ UNCHANGED <<run_res, run_pc>>
            ELSE /\ run_fx' = run_fx \o <<probe, install>>
                 /\ IF AfterInstall(status) = "next"
                      THEN UNCHANGED <<run_res, run_pc>>
                      ELSE /\ run_res' = AfterInstall(status)
                           /\ run_pc' = "returned"

\* InstallApplication::run(false)
InstallApplication_live ==
  /\ run_pc = "called"
  /\ instruction.kind = "InstallApplication"
  /\ ProbeAndInstall(PackageManagers("InstallApplication"))
  /\ UNCHANGED <<instruction, run_dry>>
  /\ UNCHANGED outside_instr

\* InstallPackage::run(false)
InstallPackage_live ==
  /\ run_pc = "called"
  /\ instruction.kind = "InstallPackage"
  /\ ProbeAndInstall(PackageManagers("InstallPackage"))
  /\ UNCHANGED <<instruction, run_dry>>
  /\ UNCHANGED outside_instr

NextLive ==
  \/ Assert_live
  \/ WaitForCondition_live
  \/ InstallApplication_live
  \/ InstallPackage_live

SpecLive == InitLive /\ [][NextLive]_vars

\* A call that can take a step takes it: the thread that called run() is
\* scheduled, and every command it waits for exits.
FairSpecLive == SpecLive /\ WF_vars(NextLive)

(* ---------------------------------------------------------------------- *)
(* SpecLogger: the logging pipeline (logger.rs) and the program around it *)
(* (main.rs, examples/logger_demo.rs)                                     *)
(* ---------------------------------------------------------------------- *)
\* enum LogLevel, in the order of its derived Ord
Levels == <<"Debug", "Info", "Warning", "Error", "Critical">>
LevelRank(l) == CHOOSE i \in 1..Len(Levels) : Levels[i] = l

LevelSet == {Levels[i] : i \in 1..Len(Levels)}

\* The levels the worker threads log at (logger.info(..), logger.warn(..)).
WorkerLevels == {"Info", "Warning"}

\* LogMessage::new: the message number n of handle src stands for its
\* thread, timestamp and text.
LogMessage_new(src, n, level, text) ==
  [src |-> src, n |-> n, level |-> level, text |-> text]

\* Variant: a message at the filter's own level is dropped.
LevelFilter_allow_above(min_level, message) ==
  LevelRank(message.level) > LevelRank(min_level)

\* LevelFilter::allow
LevelFilter_allow(min_level, message) ==
  LevelRank(message.level) >= LevelRank(min_level)

\* Variant: one approving filter is enough.
AllowedByAny(fs, message) ==
  \E i \in 1..Len(fs) : LevelFilter_allow(fs[i], message)

\* self.filters.iter().all(|filter| filter.allow(&message))
AllowedByAll(fs, message) ==
  \A i \in 1..Len(fs) : LevelFilter_allow(fs[i], message)

\* for output in &self.outputs { output.write(&message) }
WriteToOutputs(message) == [o \in Outputs |-> <<o, message>>]

\* The Receiver lives in the collector, which the collector thread owns: it
\* is dropped when that thread ends.
ReceiverAlive == collector_pc \in {"start", "while", "recv"}

\* Some Sender of the channel has not been dropped.
SenderAlive == system_sender \/ \E h \in Handles : logger[h] = "live"

\* Variant: a channel that holds one message and drops what does not fit.
Sender_send_bounded(q, alive, message) ==
  IF alive /\ q = <<>> THEN Append(q, message) ELSE q

\* Sender::send: the message joins the queue; with the Receiver gone it is
\* returned in an Err, which log() discards.
Sender_send(q, alive, message) ==
  IF alive THEN Append(q, message) ELSE q

\* Variant: disconnection is reported while messages are still queued.
recv_timeout_eager(q, senders) ==
  IF ~senders THEN "Disconnected"
  ELSE IF q # <<>> THEN "Ok"
  ELSE "Timeout"

\* Receiver::recv_timeout: a queued message first; with the queue empty,
\* Disconnected when every Sender is dropped, else Timeout.
recv_timeout(q, senders) ==
  IF q # <<>> THEN "Ok"
  ELSE IF senders THEN "Timeout"
  ELSE "Disconnected"

\* Logger::log through handle h
Logger_log(h, level, text) ==
  LET message == LogMessage_new(h, Len(sent[h]) + 1, level, text) IN
    /\ channel' = Sender_send(channel, ReceiverAlive, message)
    /\ sent' = [sent EXCEPT ![h] = Append(@, message)]

\* main() up to the creation of main_logger: LoggerSystem::new(), the
\* outputs and the LevelFilter::new(LogLevel::Info) added to the collector,
\* start_collector (the thread is spawned, run() has not begun),
\* create_logger("main").
InitLogger ==
  /\ filters = <<"Info">>
  /\ channel = <<>>
  /\ system_sender = TRUE
  /\ logger = [h \in Handles |-> IF h = 0 THEN "live" ELSE "none"]
  /\ sent = [h \in Handles |-> <<>>]
  /\ received = <<>>
  /\ written = <<>>
  /\ running = FALSE
  /\ stopped = FALSE
  /\ collector_pc = "start"
  /\ main_pc = "use_config"
  /\ command \in {"Install", "Uninstall", "SelfUpdate"}
  /\ bundle_result = "none"
  /\ worker = [k \in Workers |-> "none"]
  /\ BundleIdle
  /\ InstrIdle
  /\ MatcherIdle
  /\ BuilderIdle

\* match config::use_config(): Ok logs the configuration at Debug level,
\* Err logs at Critical level and leaves the match.
main_use_config ==
  /\ main_pc = "use_config"
  /\ \E ok \in BOOLEAN :
       IF ok THEN /\ Logger_log(0, "Debug", "config")
                  /\ main_pc' = "command"
             ELSE /\ Logger_log(0, "Critical", "config_error")
                  /\ main_pc' = "shutdown"
  /\ UNCHANGED <<filters, system_sender, logger, received, written, running,
                 stopped, collector_pc, command, bundle_result, worker>>
  /\ UNCHANGED outside_logger

\* match &cli.command: the message that announces the operation.
main_command ==
  /\ main_pc = "command"
  /\ Logger_log(0, "Info", "start")
  /\ main_pc' = IF command = "SelfUpdate" THEN "shutdown" ELSE "bundle"
  /\ UNCHANGED <<filters, system_sender, logger, received, written, running,
                 stopped, collector_pc, command, bundle_result, worker>>
  /\ UNCHANGED outside_logger

\* LoggerSystem::create_logger: a Logger with a clone of the Sender
create_logger(loggers, h) == [loggers EXCEPT ![h] = "live"]

RECURSIVE create_loggers(_, _)
create_loggers(loggers, hs) ==
  IF hs = {} THEN loggers
  ELSE LET h == CHOOSE x \in hs : TRUE IN
         create_loggers(create_logger(loggers, h), hs \ {h})

\* The bundle operation begins: each worker thread is spawned with a Logger
\* of its own.
bundle_start ==
  /\ main_pc = "bundle"
  /\ logger' = create_loggers(logger, Workers)
  /\ worker' = [k \in Workers |-> "running"]
  /\ main_pc' = "bundle_join"
  /\ UNCHANGED <<filters, channel, system_sender, sent, received, written,
                 running, stopped, collector_pc, command, bundle_result>>
  /\ UNCHANGED outside_logger

\* The number of messages the workers ks have logged.
RECURSIVE SentBy(_)
SentBy(ks) ==
  IF ks = {} THEN 0
  ELSE LET k == CHOOSE x \in ks : TRUE IN Len(sent[k]) + SentBy(ks \ {k})

\* A worker thread logs a message.
worker_log(k) ==
  /\ worker[k] = "running"
  /\ Len(sent[k]) < MaxMsgs
  /\ SentBy(Workers) < MaxSent
  /\ \E level \in WorkerLevels : Logger_log(k, level, "work")
  /\ UNCHANGED <<filters, system_sender, logger, received, written, running,
                 stopped, collector_pc, main_pc, command, bundle_result,
                 worker>>
  /\ UNCHANGED outside_logger

\* A worker thread ends: its closure, and the Logger moved into it, are
\* dropped.
worker_end(k) ==
  /\ worker[k] = "running"
  /\ worker' = [worker EXCEPT ![k] = "ended"]
  /\ logger' = [logger EXCEPT ![k] = "dropped"]
  /\ UNCHANGED <<filters, channel, system_sender, sent, received, written,
                 running, stopped, collector_pc, main_pc, command,
                 bundle_result>>
  /\ UNCHANGED outside_logger

\* Variant: main leaves after reporting the error of the bundle operation.
main_bundle_returns_or_leaves ==
  /\ main_pc = "bundle_join"
  /\ \A k \in Workers : worker[k] = "ended"
  /\ \E r \in {"Ok", "Err"} :
       /\ bundle_result' = r
       /\ IF r = "Err"
            THEN /\ Logger_log(0, "Error", "error")
                 /\ main_pc' = "shutdown"
            ELSE /\ UNCHANGED <<channel, sent>>
                 /\ main_pc' = "complete"
  /\ UNCHANGED <<filters, system_sender, logger, received, written, running,
                 stopped, collector_pc, command, worker>>
  /\ UNCHANGED outside_logger

\* bundle.install(..) / bundle.uninstall(..) returns, all worker threads
\* joined: `if let Err(e) = .. { main_logger.error(..) }`.
main_bundle_returns ==
  /\ main_pc = "bundle_join"
  /\ \A k \in Workers : worker[k] = "ended"
  /\ \E r \in {"Ok", "Err"} :
       /\ bundle_result' = r
       /\ IF r = "Err"
            THEN Logger_log(0, "Error", "error")
            ELSE UNCHANGED <<channel, sent>>
  /\ main_pc' = "complete"
  /\ UNCHANGED <<filters, system_sender, logger, received, written, running,
                 stopped, collector_pc, command, worker>>
  /\ UNCHANGED outside_logger

\* main_logger.info("==> Installation abgeschlossen.") / "==> Deinstallation
\* abgeschlossen."
main_complete ==
  /\ main_pc = "complete"
  /\ Logger_log(0, "Info", "complete")
  /\ main_pc' = "shutdown"
  /\ UNCHANGED <<filters, system_sender, logger, received, written, running,
                 stopped, collector_pc, command, bundle_result, worker>>
  /\ UNCHANGED outside_logger

\* A program that drops its own Logger before it shuts the system down.
\* main.rs and logger_demo.rs do not: their main_logger lives to the end of
\* main().
main_drop_logger ==
  /\ main_pc = "shutdown"
  /\ logger[0] = "live"
  /\ logger' = [logger EXCEPT ![0] = "dropped"]
  /\ UNCHANGED <<filters, channel, system_sender, sent, received, written,
                 running, stopped, collector_pc, main_pc, command,
                 bundle_result, worker>>
  /\ UNCHANGED outside_logger

\* logger_system.shutdown() (drop(self.sender)), or drop(logger_system)
LoggerSystem_shutdown ==
  /\ main_pc = "shutdown"
  /\ system_sender' = FALSE
  /\ main_pc' = "join"
  /\ UNCHANGED <<filters, channel, logger, sent, received, written, running,
                 stopped, collector_pc, command, bundle_result, worker>>
  /\ UNCHANGED outside_logger

\* collector_handle.join() returns when the collector thread has ended;
\* main() then ends, and its locals (main_logger) are dropped.
main_join ==
  /\ main_pc = "join"
  /\ collector_pc \in {"break", "end"}
  /\ main_pc' = "done"
  /\ logger' = [logger EXCEPT ![0] = "dropped"]
  /\ UNCHANGED <<filters, channel, system_sender, sent, received, written,
                 running, stopped, collector_pc, command, bundle_result,
                 worker>>
  /\ UNCHANGED outside_logger

\* Variant: run() leaves the flag as a stop() call before it has set it.
LogCollector_run_unless_stopped ==
  /\ collector_pc = "start"
  /\ running' = ~stopped
  /\ collector_pc' = "while"
  /\ UNCHANGED <<filters, channel, system_sender, logger, sent, received,
                 written, stopped, main_pc, command, bundle_result, worker>>
  /\ UNCHANGED outside_logger

\* LogCollector::run, entry: *running = true
LogCollector_run ==
  /\ collector_pc = "start"
  /\ running' = TRUE
  /\ collector_pc' = "while"
  /\ UNCHANGED <<filters, channel, system_sender, logger, sent, received,
                 written, stopped, main_pc, command, bundle_result, worker>>
  /\ UNCHANGED outside_logger

\* while self.is_running()
LogCollector_is_running ==
  /\ collector_pc = "while"
  /\ collector_pc' = IF running THEN "recv" ELSE "end"
  /\ UNCHANGED <<filters, channel, system_sender, logger, sent, received,
                 written, running, stopped, main_pc, command, bundle_result,
                 worker>>
  /\ UNCHANGED outside_logger

\* match self.receiver.recv_timeout(..): one pass of the loop body
LogCollector_recv ==
  /\ collector_pc = "recv"
  /\ LET got == recv_timeout(channel, SenderAlive) IN
       CASE got = "Ok" ->
              LET message == Head(channel) IN
                /\ channel' = Tail(channel)
                /\ received' = Append(received, message)
                /\ written' = IF AllowedByAll(filters, message)
                                THEN written \o WriteToOutputs(message)
                                ELSE written
                /\ collector_pc' = "while"
         [] got = "Timeout" ->
              /\ collector_pc' = "while"
              /\ UNCHANGED <<channel, received, written>>
         [] got = "Disconnected" ->
              /\ collector_pc' = "break"
              /\ UNCHANGED <<channel, received, written>>
  /\ UNCHANGED <<filters, system_sender, logger, sent, running, stopped,
                 main_pc, command, bundle_result, worker>>
  /\ UNCHANGED outside_logger

MainThread ==
  \/ main_use_config
  \/ main_command
  \/ bundle_start
  \/ main_bundle_returns
  \/ main_complete
  \/ main_drop_logger
  \/ LoggerSystem_shutdown
  \/ main_join

WorkerThread(k) == worker_log(k) \/ worker_end(k)

CollectorThread ==
  LogCollector_run \/ LogCollector_is_running \/ LogCollector_recv

NextLogger ==
  \/ MainThread
  \/ \E k \in Workers : WorkerThread(k)
  \/ CollectorThread

SpecLogger == InitLogger /\ [][NextLogger]_vars

\* The threads are operating-system threads: each one that can take a step
\* eventually takes one.
FairSpecLogger ==
  /\ SpecLogger
  /\ WF_vars(MainThread)
  /\ WF_vars(CollectorThread)
  /\ \A k \in Workers : WF_vars(WorkerThread(k))

(* ---------------------------------------------------------------------- *)
(* SpecCollector: LogCollector::run over any filters and any messages     *)
(* ---------------------------------------------------------------------- *)
\* The messages a client logs through one Logger at the levels ls.
Logged(ls) == [n \in 1..Len(ls) |-> LogMessage_new(0, n, ls[n], "work")]

\* A client of the library has registered its filters (add_filter) and
\* outputs (add_output), started the collector, logged through its Logger,
\* dropped the Logger and shut the system down; the collector thread has
\* not begun run().
InitCollector ==
  /\ filters \in SeqsUpTo(LevelSet, MaxFilters)
  /\ \E ls \in SeqsUpTo(LevelSet, MaxMsgs) :
       /\ channel = Logged(ls)
       /\ sent = [h \in Handles |-> IF h = 0 THEN Logged(ls) ELSE <<>>]
  /\ system_sender = FALSE
  /\ logger = [h \in Handles |-> IF h = 0 THEN "dropped" ELSE "none"]
  /\ received = <<>>
  /\ written = <<>>
  /\ running = FALSE
  /\ stopped = FALSE
  /\ collector_pc = "start"
  /\ main_pc = "join"
  /\ command = "SelfUpdate"
  /\ bundle_result = "none"
  /\ worker = [k \in Workers |-> "none"]
  /\ BundleIdle
  /\ InstrIdle
  /\ MatcherIdle
  /\ BuilderIdle

NextCollector == CollectorThread \/ main_join

SpecCollector == InitCollector /\ [][NextCollector]_vars

(* ---------------------------------------------------------------------- *)
(* SpecStop: a client that may call stop() on the collector it holds      *)
(* ---------------------------------------------------------------------- *)
\* A client of the library has made the system (LoggerSystem::new), logged
\* through a Logger and dropped it; it still holds the LoggerSystem, and
\* run() has not begun.
InitStop ==
  /\ filters = <<"Info">>
  /\ \E ls \in SeqsUpTo(LevelSet, MaxMsgs) :
       /\ channel = Logged(ls)
       /\ sent = [h \in Handles |-> IF h = 0 THEN Logged(ls) ELSE <<>>]
  /\ system_sender = TRUE
  /\ logger = [h \in Handles |-> IF h = 0 THEN "dropped" ELSE "none"]
  /\ received = <<>>
  /\ written = <<>>
  /\ running = FALSE
  /\ stopped = FALSE
  /\ collector_pc = "start"
  /\ main_pc = "shutdown"
  /\ command = "SelfUpdate"
  /\ bundle_result = "none"
  /\ worker = [k \in Workers |-> "none"]
  /\ BundleIdle
  /\ InstrIdle
  /\ MatcherIdle
  /\ BuilderIdle

\* LogCollector::stop(), called by the client while it holds the collector,
\* that is before it moves it into the thread that calls run(): the
\* Receiver in it keeps a collector from being shared between threads.
LogCollector_stop ==
  /\ collector_pc = "start"
  /\ ~stopped
  /\ running' = FALSE
  /\ stopped' = TRUE
  /\ UNCHANGED <<filters, channel, system_sender, logger, sent, received,
                 written, collector_pc, main_pc, command, bundle_result,
                 worker>>
  /\ UNCHANGED outside_logger

NextStop ==
  \/ LogCollector_stop
  \/ CollectorThread
  \/ LoggerSystem_shutdown
  \/ main_join

SpecStop == InitStop /\ [][NextStop]_vars

(* ---------------------------------------------------------------------- *)
(* SpecMatcher: OsMatcher (config/machine.rs)                             *)
(* ---------------------------------------------------------------------- *)
WINDOWS_BASED_OS == <<"Windows">>
MAC_BASED_OS == <<"Macos">>
\* Variant: the Linux list without the derivatives of Arch.
LINUX_BASED_OS_upstream ==
  <<"Linux", "AlmaLinux", "Alpaquita", "Alpine", "Amazon", "AOSC", "Arch",
    "Bluefin", "CentOS", "Debian", "Fedora", "Gentoo", "Kali", "Mabox",
    "Mint", "NixOS", "Nobara", "openEuler", "openSUSE", "OracleLinux", "Pop",
    "Raspbian", "Redhat", "RedHatEnterprise", "RockyLinux", "SUSE",
    "Ubuntu", "Ultramarine", "Void">>

LINUX_BASED_OS ==
  <<"Linux", "AlmaLinux", "Alpaquita", "Alpine", "Amazon", "AOSC", "Arch",
    "Artix", "Bluefin", "CachyOS", "CentOS", "Debian", "EndeavourOS",
    "Fedora", "Garuda", "Gentoo", "Kali", "Mabox", "Manjaro", "Mint",
    "NixOS", "Nobara", "openEuler", "openSUSE", "OracleLinux", "Pop",
    "Raspbian", "Redhat", "RedHatEnterprise", "RockyLinux", "SUSE",
    "Ubuntu", "Ultramarine", "Void">>
ARCH_BASED_OS ==
  <<"Arch", "Artix", "EndeavourOS", "Garuda", "Manjaro", "CachyOS">>
RHEL_BASED_OS ==
  <<"AlmaLinux", "CentOS", "Fedora", "Nobara", "OracleLinux", "Redhat",
    "RedHatEnterprise", "RockyLinux">>
DEBIAN_BASED_OS == <<"Debian", "Ubuntu", "Mint", "Pop", "Raspbian">>
GENTOO_BASED_OS == <<"Gentoo">>
ANDROID_BASED_OS == <<"Android">>

\* enum OsCategory
OsCategory ==
  {"Windows", "MacOS", "LinuxBased", "ArchBased", "RHELBased", "DebianBased",
   "GentooBased", "AndroidBased"}

\* The systems (os_info::Type) a matcher is asked about: the ones the
\* category lists name, and two that no list names.
OS ==
  {LINUX_BASED_OS[i] : i \in 1..Len(LINUX_BASED_OS)}
    \cup {"Windows", "Macos", "Android", "FreeBSD", "Unknown"}

\* The systems a client hands to OsMatcher::new.
ListedOS == {"Windows", "Macos", "FreeBSD"}

\* enum OsSelector
OsSelector ==
  [kind : {"OS"}, os : ListedOS] \cup [kind : {"OsCategory"}, category : OsCategory]

\* OsMatcher::new: os_list.to_vec()
OsMatcher_new(list) == [n \in 1..Len(list) |-> list[n]]

\* OsMatcher::from_category
OsMatcher_from_category(category) ==
  CASE category = "Windows" -> OsMatcher_new(WINDOWS_BASED_OS)
    [] category = "MacOS" -> OsMatcher_new(MAC_BASED_OS)
    [] category = "LinuxBased" -> OsMatcher_new(LINUX_BASED_OS)
    [] category = "ArchBased" -> OsMatcher_new(ARCH_BASED_OS)
    [] category = "RHELBased" -> OsMatcher_new(RHEL_BASED_OS)
    [] category = "DebianBased" -> OsMatcher_new(DEBIAN_BASED_OS)
    [] category = "GentooBased" -> OsMatcher_new(GENTOO_BASED_OS)
    [] category = "AndroidBased" -> OsMatcher_new(ANDROID_BASED_OS)

\* Variant: each category replaces the list instead of extending it.
RECURSIVE extend_categories_replacing(_, _)
extend_categories_replacing(list, categories) ==
  IF categories = <<>> THEN list
  ELSE extend_categories_replacing(OsMatcher_from_category(Head(categories)),
                                   Tail(categories))

\* Variant: a system already in the list is not added again.
RECURSIVE extend_categories_dedup(_, _)
extend_categories_dedup(list, categories) ==
  IF categories = <<>> THEN list
  ELSE extend_categories_dedup(
         list \o SelectSeq(OsMatcher_from_category(Head(categories)),
                           LAMBDA o : \A i \in 1..Len(list) : list[i] # o),
         Tail(categories))

\* The loop of from_categories: os_list.extend(..) for each category.
RECURSIVE extend_categories(_, _)
extend_categories(list, categories) ==
  IF categories = <<>> THEN list
  ELSE extend_categories(list \o OsMatcher_from_category(Head(categories)),
                         Tail(categories))

\* OsMatcher::from_categories
OsMatcher_from_categories(categories) ==
  OsMatcher_new(extend_categories(<<>>, categories))

\* OsMatcher::from_selector
OsMatcher_from_selector(selector) ==
  IF selector.kind = "OS" THEN OsMatcher_new(<<selector.os>>)
  ELSE OsMatcher_from_category(selector.category)

\* Variant: only the head of the list is compared.
OsMatcher_matches_head(list, os) == list # <<>> /\ list[1] = os

\* OsMatcher::matches: self.os_list.iter().any(|o| o.0 == os.0)
OsMatcher_matches(list, os) == \E i \in 1..Len(list) : list[i] = os

InitMatcher ==
  /\ MatcherIdle
  /\ BuilderIdle
  /\ BundleIdle
  /\ InstrIdle
  /\ LoggerIdle

\* A client makes a matcher by one of the four constructors.
Build(call, list) ==
  /\ matcher_pc = "none"
  /\ os_list' = list
  /\ built' = call
  /\ matcher_pc' = "built"
  /\ UNCHANGED <<asked, answer>>
  /\ UNCHANGED outside_matcher

new_matcher ==
  \E list \in SeqsUpTo(ListedOS, MaxList) :
    Build(<<"new", list>>, OsMatcher_new(list))

category_matcher ==
  \E category \in OsCategory :
    Build(<<"from_category", category>>, OsMatcher_from_category(category))

categories_matcher ==
  \E categories \in SeqsUpTo(OsCategory, MaxCats) :
    Build(<<"from_categories", categories>>,
          OsMatcher_from_categories(categories))

selector_matcher ==
  \E selector \in OsSelector :
    Build(<<"from_selector", selector>>, OsMatcher_from_selector(selector))

\* A client asks the matcher about a system.
ask_matches ==
  /\ matcher_pc = "built"
  /\ \E os \in OS :
       /\ asked' = os
       /\ answer' = OsMatcher_matches(os_list, os)
  /\ matcher_pc' = "matched"
  /\ UNCHANGED <<os_list, built>>
  /\ UNCHANGED outside_matcher

NextMatcher ==
  \/ new_matcher
  \/ category_matcher
  \/ categories_matcher
  \/ selector_matcher
  \/ ask_matches

SpecMatcher == InitMatcher /\ [][NextMatcher]_vars

(* ---------------------------------------------------------------------- *)
(* SpecBuilder: the builders of InstructionMapping and Package            *)
(* ---------------------------------------------------------------------- *)
\* The instructions a caller hands to add_prerequisite_checks.
CheckInputs == {AssertInstr(FALSE), RunInstr(FALSE), [kind |-> "DownloadTo"]}

\* The matchers the package definitions hand to add_mapping.
Matchers ==
  {OsMatcher_from_category(c) : c \in OsCategory}
    \cup {OsMatcher_new(<<os>>) : os \in ListedOS}

\* `match check { Instructions::Assert(_) => .., _ => panic!(..) }`
IsAssert(check) == check.kind = "Assert"

\* Variant: the checks are taken without validation.
add_prerequisite_checks_unchecked(self, checks) ==
  [panic |-> FALSE,
   self |-> [self EXCEPT !.prerequisite_checks = @ \o checks]]

\* InstructionMapping::add_prerequisite_checks: the validation loop over
\* all of checks, then extend.
add_prerequisite_checks(self, checks) ==
  IF \E n \in 1..Len(checks) : ~IsAssert(checks[n])
    THEN [panic |-> TRUE, self |-> self]
    ELSE [panic |-> FALSE,
          self |-> [self EXCEPT !.prerequisite_checks = @ \o checks]]

\* HashMap::insert
insert(map, key, value) ==
  [k \in DOMAIN map \cup {key} |-> IF k = key THEN value ELSE map[k]]

\* Variant: an OS that has a mapping keeps it.
RECURSIVE Package_add_mapping_if_absent(_, _, _)
Package_add_mapping_if_absent(map, list, mapping) ==
  IF list = <<>> THEN map
  ELSE Package_add_mapping_if_absent(
         IF Head(list) \in DOMAIN map THEN map
         ELSE insert(map, Head(list), mapping),
         Tail(list), mapping)

\* Package::add_mapping: for os_type in os.get_list() { insert(..) }
RECURSIVE Package_add_mapping(_, _, _)
Package_add_mapping(map, list, mapping) ==
  IF list = <<>> THEN map
  ELSE Package_add_mapping(insert(map, Head(list), mapping),
                           Tail(list), mapping)

\* Package::new(..): no mapping
InitBuilder ==
  /\ BuilderIdle
  /\ BundleIdle
  /\ InstrIdle
  /\ LoggerIdle
  /\ MatcherIdle

\* InstructionMapping::new(): the id stands for the instruction lists the
\* caller goes on to give it.
new_mapping ==
  /\ im_pc = "none"
  /\ Len(added) < MaxAdds
  /\ im' = [id |-> Len(added) + 1, prerequisite_checks |-> <<>>]
  /\ im_pc' = "building"
  /\ UNCHANGED <<pkg_mapping, added, given>>
  /\ UNCHANGED outside_builder

\* .add_prerequisite_checks(vec![..])
add_checks ==
  /\ im_pc = "building"
  /\ \E checks \in SeqsUpTo(CheckInputs, MaxChecks) :
       /\ LET r == add_prerequisite_checks(im, checks) IN
            /\ Len(r.self.prerequisite_checks) <= MaxChecks
            /\ im' = r.self
            /\ im_pc' = IF r.panic THEN "panicked" ELSE "building"
       /\ given' = checks
  /\ UNCHANGED <<pkg_mapping, added>>
  /\ UNCHANGED outside_builder

\* .add_mapping(matcher, mapping)
add_mapping ==
  /\ im_pc = "building"
  /\ \E list \in Matchers :
       /\ pkg_mapping' = Package_add_mapping(pkg_mapping, list, im)
       /\ added' = Append(added, <<list, im>>)
  /\ im_pc' = "none"
  /\ UNCHANGED <<im, given>>
  /\ UNCHANGED outside_builder

NextBuilder == new_mapping \/ add_checks \/ add_mapping

SpecBuilder == InitBuilder /\ [][NextBuilder]_vars

(* ---------------------------------------------------------------------- *)
(* Properties                                                             *)
(* ---------------------------------------------------------------------- *)
IsCheck(c) == c.list = "prerequisite_checks"
IsInstall(c) == c.list = "install"
CheckCalls(p) == SelectSeq(calls["install"][p], IsCheck)
InstallCalls(p) == SelectSeq(calls["install"][p], IsInstall)
Terminated(ph, p) == thread[ph][p].st \in {"returned", "panicked"}
Joined(ph, p) == Terminated(ph, p) /\ thread[ph][p].joined
Last(cs) == cs[Len(cs)]

\* cs invokes positions 1, 2, .. in order and nothing after a failure
InOrderUntilFailure(cs) ==
  \A n \in 1..Len(cs) : cs[n].idx = n /\ (n < Len(cs) => cs[n].res = "Ok")

\* cs is a whole pass over list: in order, up to the first failure or the end
RanToEnd(cs, list) ==
  /\ InOrderUntilFailure(cs)
  /\ Len(cs) <= Len(list)
  /\ Len(cs) < Len(list) => (cs # <<>> /\ Last(cs).res = "Err")

\* the install worker of p made a whole pass: checks up to the first success,
\* and, if none succeeded, the install list up to the first failure
InstallRanToEnd(p) ==
  LET cc == CheckCalls(p)
      ic == InstallCalls(p)
      m == programs[p].m IN
    /\ thread["install"][p].st = "returned"
    /\ calls["install"][p] = cc \o ic
    /\ \A n \in 1..Len(cc) : cc[n].idx = n /\ (n < Len(cc) => cc[n].res = "Err")
    /\ IF cc # <<>> /\ Last(cc).res = "Ok"
         THEN ic = <<>>
         ELSE Len(cc) = Len(m.prerequisite_checks) /\ RanToEnd(ic, m.install)

ConfigureRanToEnd(p) ==
  /\ thread["configure"][p].st = "returned"
  /\ RanToEnd(calls["configure"][p], programs[p].m.configuration)

InstallFailed(p) ==
  \E n \in 1..Len(InstallCalls(p)) : InstallCalls(p)[n].res = "Err"

\* C1: during install(), a configuration instruction is invoked only when
\* the install worker of every package has terminated and has been joined.
C1_PhaseBarrier ==
  \A p \in Pkgs :
    calls["configure"][p] # <<>> => \A q \in Pkgs : Joined("install", q)

C1_Witness ==
  \E p, q \in Pkgs :
    /\ p # q
    /\ calls["configure"][p] # <<>>
    /\ InstallCalls(p) # <<>>
    /\ InstallCalls(q) # <<>>

\* C2: during uninstall(), an uninstall instruction is invoked only when the
\* deconfigure worker of every package that has deconfiguration
\* instructions has terminated and has been joined.
C2_DeconfigureFirst ==
  \A p \in Pkgs :
    calls["uninstall"][p] # <<>> =>
      \A q \in Pkgs :
        (programs[q].mapped /\ programs[q].m.deconfiguration # <<>>)
          => Joined("deconfigure", q)

\* C3: the prerequisite checks run in list order, and a check that returns
\* Ok is the last thing the install worker does: no later check and no
\* install instruction is invoked.
C3_PrerequisiteShortCircuit ==
  \A p \in Pkgs :
    LET cs == calls["install"][p] IN
      \A n \in 1..Len(cs) :
        IsCheck(cs[n]) =>
          /\ cs[n].idx = n
          /\ cs[n].res = "Ok" =>
               /\ n = Len(cs)
               /\ thread["install"][p].st = "returned"

C3_Witness ==
  \E p \in Pkgs :
    /\ ~dry_run
    /\ Len(programs[p].m.prerequisite_checks) = 2
    /\ programs[p].m.install # <<>>
    /\ thread["install"][p].joined
    /\ Len(calls["install"][p]) = 1
    /\ calls["install"][p][1].res = "Ok"

\* C4: when install() has returned and an install instruction of package A
\* failed, every other package B made its whole install pass and, if it has
\* configuration instructions, its whole configure pass.
C4_FailureIsolation ==
  (op = "install" /\ opc = "ret") =>
    \A a, b \in Pkgs :
      (a # b /\ InstallFailed(a) /\ programs[b].mapped) =>
        /\ InstallRanToEnd(b)
        /\ programs[b].m.configuration # <<>> => ConfigureRanToEnd(b)

C4_Witness ==
  /\ opc = "ret"
  /\ \E a, b \in Pkgs :
       /\ a # b
       /\ InstallFailed(a)
       /\ InstallCalls(b) # <<>>
       /\ Last(InstallCalls(b)).res = "Ok"
       /\ calls["configure"][b] # <<>>

\* C5: install() and uninstall() return Ok(()) and nothing else.
C5_AlwaysOk ==
  /\ result \in {"none", "Ok"}
  /\ opc = "ret" => result = "Ok"

C5_Witness ==
  /\ opc = "ret"
  /\ result = "Ok"
  /\ panic_log # {}
  /\ \E p \in Pkgs : InstallFailed(p)

\* C6: the install instructions of a package are invoked in list order, and
\* instruction k only after instructions 1..k-1 all returned Ok.
C6_InstallInOrder ==
  \A p \in Pkgs :
    LET ic == InstallCalls(p) IN
      /\ Len(ic) <= Len(programs[p].m.install)
      /\ \A n \in 1..Len(ic) :
           ic[n].idx = n /\ \A j \in 1..(n - 1) : ic[j].res = "Ok"

C6_Witness ==
  \E p \in Pkgs :
    /\ Len(programs[p].m.install) = 2
    /\ thread["install"][p].st = "returned"
    /\ Len(InstallCalls(p)) = 1
    /\ InstallCalls(p)[1].res = "Err"

\* C7: in the configure, uninstall and deconfigure phases a worker invokes
\* only instructions of its phase's list of the mapping, in list order, none
\* after one that returned Err, and no prerequisite check; it returns Err
\* exactly when its last instruction failed.
ListOfPhase(ph, m) ==
  CASE ph = "configure" -> m.configuration
    [] ph = "uninstall" -> m.uninstall
    [] ph = "deconfigure" -> m.deconfiguration

NameOfPhase(ph) ==
  CASE ph = "configure" -> "configuration"
    [] ph = "uninstall" -> "uninstall"
    [] ph = "deconfigure" -> "deconfiguration"

C7_OtherPhases ==
  \A ph \in {"configure", "uninstall", "deconfigure"} : \A p \in Pkgs :
    LET cs == calls[ph][p]
        list == ListOfPhase(ph, programs[p].m) IN
      /\ \A n \in 1..Len(cs) : cs[n].list = NameOfPhase(ph)
      /\ InOrderUntilFailure(cs)
      /\ Len(cs) <= Len(list)
      /\ thread[ph][p].st = "returned" =>
           /\ RanToEnd(cs, list)
           /\ thread[ph][p].ret =
                IF cs # <<>> /\ Last(cs).res = "Err" THEN "Err" ELSE "Ok"

C7_Witness ==
  \E p \in Pkgs :
    /\ programs[p].m.prerequisite_checks # <<>>
    /\ Len(programs[p].m.uninstall) = 2
    /\ thread["uninstall"][p].st = "returned"
    /\ thread["uninstall"][p].ret = "Err"
    /\ Len(calls["uninstall"][p]) = 1

\* C8: a check whose command cannot be spawned, exits non-zero or prints
\* something else returns Err; when every prerequisite check of a package
\* has returned Err, the install worker goes on to the install list,
\* starting with its first instruction.
AllChecksFailed(p) ==
  /\ CheckCalls(p) # <<>>
  /\ Len(CheckCalls(p)) = Len(programs[p].m.prerequisite_checks)
  /\ \A n \in 1..Len(CheckCalls(p)) : CheckCalls(p)[n].res = "Err"

C8_ChecksFailedThenInstall ==
  /\ \A inst \in AssertInstrs :
       \A proc \in {"spawn_error", "exit_nonzero", "exit_zero_mismatch"} :
         Instructions_run(inst, FALSE, proc) = "Err"
  /\ \A p \in Pkgs :
       AllChecksFailed(p) =>
         LET t == thread["install"][p]
             ic == InstallCalls(p) IN
           IF programs[p].m.install = <<>>
             THEN t.st = "returned" /\ ic = <<>>
             ELSE \/ t.st = "run" /\ t.k = 1 /\ ic = <<>>
                  \/ ic # <<>> /\ ic[1].idx = 1

C8_Witness ==
  \E p \in Pkgs :
    /\ ~dry_run
    /\ Len(programs[p].m.prerequisite_checks) = 2
    /\ ~programs[p].m.prerequisite_checks[1].blank
    /\ AllChecksFailed(p)
    /\ InstallCalls(p) # <<>>

\* C9: a package without a mapping for the OS has no instruction invoked in
\* any phase; its install worker panics, which the join loop reports; when
\* install() returns, every other package made its whole install pass and
\* the configure phase has run.
C9_MissingMapping ==
  \A p \in Pkgs :
    ~programs[p].mapped =>
      /\ \A ph \in Phases : calls[ph][p] = <<>>
      /\ thread["install"][p].st \in {"none", "spawned", "panicked"}
      /\ (op = "install" /\ opc = "ret") =>
           /\ ophase = 2
           /\ thread["install"][p].st = "panicked"
           /\ <<"install", p>> \in panic_log
           /\ \A q \in Pkgs :
                programs[q].mapped =>
                  /\ InstallRanToEnd(q)
                  /\ thread["install"][q].joined
                  /\ programs[q].m.configuration # <<>> => ConfigureRanToEnd(q)

C9_Witness ==
  /\ opc = "ret"
  /\ \E p, q \in Pkgs :
       /\ ~programs[p].mapped
       /\ <<"install", p>> \in panic_log
       /\ InstallCalls(q) # <<>>
       /\ calls["configure"][q] # <<>>

\* C10: a panic is reported exactly for a panicked thread that has been
\* joined; when a phase with a panicked thread is over, every thread spawned
\* in it has been joined, and each sibling that did not panic made its whole
\* pass.
C10_PanicAtJoin ==
  /\ \A ph \in Phases : \A p \in Pkgs :
       <<ph, p>> \in panic_log
         <=> (thread[ph][p].st = "panicked" /\ thread[ph][p].joined)
  /\ \A ph \in Phases : \A p \in Pkgs :
       (thread[ph][p].st = "panicked" /\ (Phase # ph \/ opc = "ret")) =>
         \A q \in Pkgs :
           thread[ph][q].st # "none" =>
             /\ Joined(ph, q)
             /\ (ph = "install" /\ thread[ph][q].st = "returned")
                  => InstallRanToEnd(q)
  /\ opc = "ret" => ophase = 2

C10_Witness ==
  /\ ophase = 2
  /\ \E p, q \in Pkgs :
       /\ p < q
       /\ thread["install"][p].st = "panicked"
       /\ <<"install", p>> \in panic_log
       /\ Joined("install", q)
       /\ InstallCalls(q) # <<>>
       /\ thread["configure"][q].st # "none"

\* The spawn loop of phase ph has gone past package p.
SpawnDecided(ph, p) ==
  \E n \in 1..2 :
    /\ PhaseOrder(op)[n] = ph
    /\ \/ n < ophase
       \/ n = ophase /\ (opc # "spawn" \/ oi > p)

HasWorker(ph, p) == thread[ph][p].st # "none"

NoDuplicates(s) == \A i, j \in 1..Len(s) : i # j => s[i] # s[j]

\* C11 (as stated): in every phase, install included, a package has a worker
\* exactly when it has a mapping with a non-empty list for that phase.
C11_SpawnIffNonEmpty ==
  \A ph \in Phases : \A p \in Pkgs :
    SpawnDecided(ph, p) =>
      (HasWorker(ph, p)
         <=> (programs[p].mapped /\ PhaseList(ph, programs[p].m) # <<>>))

\* C11 (amended): in the configure, deconfigure and uninstall phases a
\* package has a worker exactly when it has a mapping with a non-empty list
\* for that phase; in the install phase every package has a worker; no
\* package has a worker before the spawn loop reaches it, and no package has
\* two workers in one phase.
C11_SpawnRule ==
  /\ \A ph \in Phases : \A p \in Pkgs :
       IF SpawnDecided(ph, p)
         THEN HasWorker(ph, p)
                <=> \/ ph = "install"
                    \/ programs[p].mapped /\ PhaseList(ph, programs[p].m) # <<>>
         ELSE ~HasWorker(ph, p)
  /\ NoDuplicates(handles)
  /\ \A p \in Pkgs :
       HasWorker(Phase, p) <=> \E n \in 1..Len(handles) : handles[n] = p

C11_Witness ==
  /\ op = "install"
  /\ opc = "ret"
  /\ \E p, q \in Pkgs :
       /\ ~programs[p].mapped
       /\ HasWorker("install", p)
       /\ ~HasWorker("configure", p)
       /\ programs[q].m.install = <<>>
       /\ programs[q].m.prerequisite_checks = <<>>
       /\ HasWorker("install", q)
       /\ HasWorker("configure", q)

\* C14: every instruction invocation of the operation, prerequisite checks
\* and both phases included, is made with the dry_run value the operation
\* was called with.
C14_DryRunPropagates ==
  \A ph \in Phases : \A p \in Pkgs : \A n \in 1..Len(calls[ph][p]) :
    calls[ph][p][n].dry = dry_run

C14_Witness ==
  /\ dry_run
  /\ opc = "ret"
  /\ \E p \in Pkgs :
       /\ CheckCalls(p) # <<>>
       /\ InstallCalls(p) # <<>>
       /\ calls["configure"][p] # <<>>

\* C12: a call with dry_run = true spawns no process, downloads nothing and
\* writes no file; what it does is at most one println!, and exactly one
\* when it returns Ok.
C12_DryRunNoSideEffect ==
  (run_pc = "returned" /\ run_dry) =>
    /\ \A n \in 1..Len(run_fx) : run_fx[n] \notin {"spawn", "net", "fs_write"}
    /\ \A n \in 1..Len(run_fx) : run_fx[n] = "print"
    /\ Len(run_fx) <= 1
    /\ run_res = "Ok" => run_fx = <<"print">>

C12_Witness ==
  /\ run_pc = "returned"
  /\ run_dry
  /\ instruction.kind = "ExtractArchive"
  /\ run_fx = <<"print">>

\* C13 (as stated): a call with dry_run = true returns Ok, for every variant
\* and every value of its parameters.
C13_DryRunReturnsOk ==
  (run_pc = "returned" /\ run_dry) => run_res = "Ok"

(* ---------------------------------------------------------------------- *)
(* The logging pipeline                                                   *)
(* ---------------------------------------------------------------------- *)
\* The messages of handle h in the sequence q, in the order of q.
FromHandle(q, h) == SelectSeq(q, LAMBDA m : m.src = h)

\* Every filter registered with the collector lets the message pass.
Approved(m) ==
  \A i \in 1..Len(filters) : LevelRank(m.level) >= LevelRank(filters[i])

\* C15: with several producers logging concurrently through Logger handles
\* of one LoggerSystem while the collector runs, every message sent is
\* delivered to the collector exactly once: it is in the channel or has been
\* received, never both and never twice, and the messages of each producer
\* are queued and received in the order that producer sent them.
C15_FanIn ==
  /\ \A h \in Handles : FromHandle(received \o channel, h) = sent[h]
  /\ \A i, j \in 1..Len(received) : received[i] = received[j] => i = j
  /\ \A h \in Handles : \A n \in 1..Len(sent[h]) : sent[h][n].n = n

\* Two workers have logged, their messages interleaved on the way, and the
\* collector has received all of them.
C15_Witness ==
  /\ channel = <<>>
  /\ Len(sent[1]) = 2
  /\ Len(sent[2]) = 1
  /\ \E i, j, k \in 1..Len(received) :
       /\ i < j /\ j < k
       /\ received[i] = sent[1][1]
       /\ received[j] = sent[2][1]
       /\ received[k] = sent[1][2]

\* C16: when the run loop of the collector has left through Disconnected,
\* the channel is empty, and every message sent has been received and, if
\* the filters approve it, written to every output.
C16_DrainedAtDisconnect ==
  collector_pc = "break" =>
    /\ channel = <<>>
    /\ \A h \in Handles : \A n \in 1..Len(sent[h]) :
         /\ \E i \in 1..Len(received) : received[i] = sent[h][n]
         /\ Approved(sent[h][n]) =>
              \A o \in Outputs :
                \E j \in 1..Len(written) : written[j] = <<o, sent[h][n]>>

\* The loop left through Disconnected although messages were still queued
\* when the last Sender was dropped: the collector drained them first.
C16_Witness ==
  /\ collector_pc = "break"
  /\ Len(received) >= 3
  /\ \E h \in Workers : sent[h] # <<>>
  /\ Len(written) >= 2 * NOutputs

\* C17: once main has shut the logger system down, the run loop of the
\* collector ends and the join of the collector thread returns.
C17_JoinReturns == (main_pc = "join") ~> (main_pc = "done")

\* C19: after an install or uninstall command whose bundle operation has
\* returned (Ok or Err), main has enqueued the completion message before it
\* shuts the logger system down: it is the last message main sent, it
\* follows the error report of a failed operation, and it is not sent while
\* the operation is still running.
C19_CompletionMessage ==
  /\ (bundle_result # "none" /\ main_pc \in {"shutdown", "join", "done"}) =>
       /\ command \in {"Install", "Uninstall"}
       /\ sent[0] # <<>>
       /\ sent[0][Len(sent[0])].text = "complete"
       /\ \E i \in 1..Len(received \o channel) :
            (received \o channel)[i] = sent[0][Len(sent[0])]
       /\ bundle_result = "Err" =>
            /\ Len(sent[0]) >= 2
            /\ sent[0][Len(sent[0]) - 1].text = "error"
  /\ (bundle_result = "none" \/ main_pc = "complete") =>
       \A n \in 1..Len(sent[0]) : sent[0][n].text # "complete"

\* The bundle operation failed, workers had logged, and main has shut the
\* system down after the completion message.
C19_Witness ==
  /\ bundle_result = "Err"
  /\ main_pc = "join"
  /\ \E k \in Workers : sent[k] # <<>>
  /\ sent[0][Len(sent[0])].text = "complete"


\* The index of the received message m.
ReceivedAt(m) == CHOOSE i \in 1..Len(received) : received[i] = m

\* C18: a received message is written if and only if every registered
\* filter allows it; an allowed message is written exactly once to each
\* output, the outputs in registration order, and all writes of one message
\* precede the writes of the messages received after it.
C18_FilterThenFanOut ==
  /\ \A i \in 1..Len(received) : \A o \in Outputs :
       Cardinality({j \in 1..Len(written) : written[j] = <<o, received[i]>>})
         = IF Approved(received[i]) THEN 1 ELSE 0
  /\ \A j \in 1..Len(written) :
       /\ written[j][1] \in Outputs
       /\ \E i \in 1..Len(received) : received[i] = written[j][2]
  /\ \A j1, j2 \in 1..Len(written) :
       j1 < j2 =>
         \/ ReceivedAt(written[j1][2]) < ReceivedAt(written[j2][2])
         \/ /\ written[j1][2] = written[j2][2]
            /\ written[j1][1] < written[j2][1]

\* Two filters are registered; of two received messages the first passes
\* only one of the filters and is dropped, the second passes both and is
\* written to each output.
C18_Witness ==
  /\ Len(filters) = 2
  /\ Len(received) = 2
  /\ ~Approved(received[1])
  /\ \E i \in 1..Len(filters) : LevelFilter_allow(filters[i], received[1])
  /\ Approved(received[2])
  /\ written = [o \in Outputs |-> <<o, received[2]>>]


(* ---------------------------------------------------------------------- *)
(* The OS matcher                                                         *)
(* ---------------------------------------------------------------------- *)
\* The systems in the list of the matcher.
Members == {os_list[i] : i \in 1..Len(os_list)}

\* C20: matches(os) is true if and only if os is a member of the list of
\* the matcher; from_category(DebianBased) matches Ubuntu,
\* from_category(RHELBased) does not match Ubuntu, and
\* from_categories([ArchBased, GentooBased]) matches Gentoo.
C20_MatchesIffMember ==
  matcher_pc = "matched" =>
    /\ answer <=> asked \in Members
    /\ (built = <<"from_category", "DebianBased">> /\ asked = "Ubuntu")
         => answer
    /\ (built = <<"from_category", "RHELBased">> /\ asked = "Ubuntu")
         => ~answer
    /\ (built = <<"from_categories", <<"ArchBased", "GentooBased">>>>
          /\ asked = "Gentoo") => answer

\* The matcher of two categories was asked about a system that only the
\* second category lists, and answered yes.
C20_Witness ==
  /\ matcher_pc = "matched"
  /\ built = <<"from_categories", <<"ArchBased", "GentooBased">>>>
  /\ asked = "Gentoo"
  /\ answer


\* The constructor call was from_categories.
FromCategories == matcher_pc # "none" /\ built[1] = "from_categories"

\* The positions of the category list that name a category listing os.
ListedBy(categories, os) ==
  {i \in 1..Len(categories) :
     OsMatcher_matches(OsMatcher_from_category(categories[i]), os)}

\* C21: a matcher made by from_categories(cs) matches a system if and only
\* if the matcher of some category of cs matches it; made from the empty
\* list it matches no system.
C21_CategoriesUnion ==
  (FromCategories /\ matcher_pc = "matched") =>
    /\ answer <=> ListedBy(built[2], asked) # {}
    /\ built[2] = <<>> => ~answer
    /\ \A os \in OS : os \in Members <=> ListedBy(built[2], os) # {}

\* The matcher of two disjoint categories matches a system of the first.
C21_Witness ==
  /\ matcher_pc = "matched"
  /\ built = <<"from_categories", <<"DebianBased", "RHELBased">>>>
  /\ asked = "Ubuntu"
  /\ answer

\* The matcher made from no category was asked and said no.
C21_WitnessEmpty ==
  /\ matcher_pc = "matched"
  /\ built = <<"from_categories", <<>>>>
  /\ ~answer

\* How often os occurs in the list of the matcher.
Occurrences(os) == Cardinality({i \in 1..Len(os_list) : os_list[i] = os})

\* C22 as stated: the list of a matcher made by from_categories holds no
\* system twice.
C22_NoDuplicates ==
  FromCategories => \A os \in OS : Occurrences(os) <= 1

\* C22 as the code has it: the list is the concatenation of the category
\* lists, so a system occurs once for each given category that lists it
\* (twice when two categories overlap or one is given twice), and the
\* answer of matches() is the same as for the list without repetitions.
C22_OncePerCategory ==
  FromCategories =>
    /\ \A os \in OS : Occurrences(os) = Cardinality(ListedBy(built[2], os))
    /\ matcher_pc = "matched" => (answer <=> Occurrences(asked) >= 1)

\* LinuxBased and ArchBased overlap: Arch is twice in the list, and matched.
C22_Witness ==
  /\ matcher_pc = "matched"
  /\ built = <<"from_categories", <<"LinuxBased", "ArchBased">>>>
  /\ asked = "Arch"
  /\ Occurrences("Arch") = 2
  /\ answer


(* ---------------------------------------------------------------------- *)
(* The builders                                                           *)
(* ---------------------------------------------------------------------- *)
\* The add_mapping calls whose matcher lists os.
AddedFor(os) ==
  {n \in 1..Len(added) : \E i \in 1..Len(added[n][1]) : added[n][1][i] = os}

\* The greatest element of a non-empty set of numbers.
Greatest(S) == CHOOSE n \in S : \A k \in S : k <= n

\* C23: after any sequence of add_mapping calls, every OS listed by the
\* matcher of some call holds the mapping of the last such call, and an OS
\* that no call listed has no mapping; so one call sets the mapping of the
\* systems of its matcher and leaves the others as they were.
C23_LastMappingWins ==
  /\ DOMAIN pkg_mapping = {os \in OS : AddedFor(os) # {}}
  /\ \A os \in DOMAIN pkg_mapping :
       pkg_mapping[os] = added[Greatest(AddedFor(os))][2]

\* A second add_mapping call overwrote the mapping of some systems of the
\* first and left the others with the first mapping.
C23_Witness ==
  /\ Len(added) = 2
  /\ {"Ubuntu", "Arch"} \subseteq DOMAIN pkg_mapping
  /\ pkg_mapping["Ubuntu"] = added[2][2]
  /\ pkg_mapping["Arch"] = added[1][2]
  /\ added[1][2] # added[2][2]
  /\ "Windows" \notin DOMAIN pkg_mapping

\* The prerequisite checks of a mapping are all Assert instructions.
OnlyAsserts(mapping) ==
  \A n \in 1..Len(mapping.prerequisite_checks) :
    mapping.prerequisite_checks[n].kind = "Assert"

\* C24: the prerequisite checks of every InstructionMapping, under
\* construction or added to the package, are Assert instructions;
\* add_prerequisite_checks panics exactly when one of the given
\* instructions is not an Assert, and the step that panics adds nothing.
C24_OnlyAssertChecks ==
  /\ [](/\ OnlyAsserts(im)
        /\ \A os \in DOMAIN pkg_mapping : OnlyAsserts(pkg_mapping[os])
        /\ im_pc = "panicked" <=>
             \E n \in 1..Len(given) : given[n].kind # "Assert")
  /\ [][im_pc' = "panicked" => im' = im]_vars

\* A mapping that already had a check was given an Assert followed by
\* another instruction, and the call panicked.
C24_Witness ==
  /\ im_pc = "panicked"
  /\ Len(im.prerequisite_checks) = 1
  /\ Len(given) = 2
  /\ given[1].kind = "Assert"
  /\ given[2].kind # "Assert"


(* ---------------------------------------------------------------------- *)
(* The bundle during a run                                                *)
(* ---------------------------------------------------------------------- *)
\* C25: a bundle run never changes the bundle: no step of the orchestrator
\* or of a worker changes the package list, a mapping or an instruction,
\* for any instruction outcomes; each worker holds its own copy of its
\* package, which stays equal to the package from its spawn to its end.
C25_BundleUnchanged ==
  /\ [][programs' = programs]_vars
  /\ [](\A ph \in Phases : \A p \in Pkgs :
          thread[ph][p].st # "none" => thread[ph][p].program = programs[p])

\* The operation has returned after workers of both phases ran
\* instructions of a package, one of which failed.
C25_Witness ==
  /\ opc = "ret"
  /\ \E p \in Pkgs :
       /\ thread["install"][p].st = "returned"
       /\ thread["configure"][p].st = "returned"
       /\ \E n \in 1..Len(calls["install"][p]) :
            calls["install"][p][n].res = "Err"
       /\ calls["configure"][p] # <<>>
       /\ thread["configure"][p].program = programs[p]
       /\ programs[p].mapped


(* ---------------------------------------------------------------------- *)
(* Single instructions, run for real                                      *)
(* ---------------------------------------------------------------------- *)
\* run(false) has returned for an instruction of the given variant.
RanLive(kind) ==
  run_pc = "returned" /\ ~run_dry /\ instruction.kind = kind

\* C26: when DownloadAndExec.run(false) has written the download to the
\* temporary path, it removes that file before it returns, whatever the
\* execution step did.
C26_TempFileRemoved ==
  RanLive("DownloadAndExec") =>
    \A n \in 1..Len(run_fx) :
      run_fx[n] = "fs_write" =>
        \E k \in (n + 1)..Len(run_fx) : run_fx[k] = "fs_remove"

\* C27: ExtractArchive.run(false) on an archive whose extension is none of
\* the supported ones returns an error and has touched nothing: no tool
\* spawned, no directory created.
C27_UnsupportedTouchesNothing ==
  (RanLive("ExtractArchive") /\ instruction.ext \notin ArchiveFormats) =>
    /\ run_res = "Err"
    /\ run_fx = <<>>


\* The one command an Assert::run(false) call spawned, as the log has it.
AssertOutput == run_fx[1]

\* C28: a live run of Assert returns Ok exactly when its command was
\* spawned, exited with status zero and printed the expected substring on
\* its standard output; with an empty command it runs nothing and fails.
C28_AssertOkIff ==
  RanLive("Assert") =>
    /\ run_res \in {"Ok", "Err"}
    /\ run_res = "Ok" <=>
         /\ ~instruction.blank
         /\ Len(run_fx) = 1
         /\ AssertOutput.spawned
         /\ AssertOutput.success
         /\ AssertOutput.contains

\* The command exited with status zero but printed something else: Err.
C28_Witness ==
  /\ RanLive("Assert")
  /\ Len(run_fx) = 1
  /\ AssertOutput.spawned
  /\ AssertOutput.success
  /\ ~AssertOutput.contains
  /\ run_res = "Err"

\* The command exited with status zero and printed the expected text: Ok.
C28_WitnessOk ==
  /\ RanLive("Assert")
  /\ Len(run_fx) = 1
  /\ AssertOutput.contains
  /\ run_res = "Ok"

\* A live WaitForCondition call with a check command.
Waiting == ~run_dry /\ instruction.kind = "WaitForCondition" /\ ~instruction.blank

\* The positions of the log at which the check command was run.
Polls == {n \in 1..Len(run_fx) : run_fx[n].act = "poll"}

\* Every failed poll is followed by a sleep of exactly one second that
\* begins when the poll ends, and the next poll begins when the sleep ends.
OneSecondApart ==
  \A n \in Polls :
    /\ n > 1 =>
         /\ run_fx[n - 1].act = "sleep"
         /\ run_fx[n - 1].end - run_fx[n - 1].start = 1
         /\ run_fx[n].start = run_fx[n - 1].end
    /\ n < Len(run_fx) =>
         /\ run_fx[n].status # "exit_zero"
         /\ run_fx[n + 1].act = "sleep"
         /\ run_fx[n + 1].start = run_fx[n].end

C29_Polling ==
  Waiting =>
    /\ OneSecondApart
    /\ \A n \in Polls : run_fx[n].start < instruction.timeout_secs
    /\ run_pc = "called" =>
         \A n \in Polls : run_fx[n].status # "exit_zero"
    /\ run_pc = "returned" =>
         /\ run_res \in {"Ok", "ErrTimeout"}
         /\ run_res = "Ok" <=>
              /\ run_fx # <<>>
              /\ run_fx[Len(run_fx)].act = "poll"
              /\ run_fx[Len(run_fx)].status = "exit_zero"
         /\ run_res = "ErrTimeout" =>
              /\ Elapsed >= instruction.timeout_secs
              /\ \A n \in Polls : run_fx[n].status # "exit_zero"

\* C29: a live WaitForCondition runs its check command, sleeping one second
\* after each failed poll; it returns Ok at the first successful poll and
\* the timeout error once timeout_secs have elapsed without one; no poll
\* starts after the timeout has elapsed, and the call returns.
C29_PollsUntilTimeout ==
  /\ []C29_Polling
  /\ Waiting ~> (run_pc = "returned")

\* Two failed polls one sleep apart, then the timeout error.
C29_Witness ==
  /\ Waiting
  /\ run_pc = "returned"
  /\ run_res = "ErrTimeout"
  /\ Cardinality(Polls) >= 2

\* A failed poll, one second of sleep, then a successful poll: Ok.
C29_WitnessOk ==
  /\ Waiting
  /\ run_pc = "returned"
  /\ run_res = "Ok"
  /\ Cardinality(Polls) = 2

\* A live InstallApplication or InstallPackage call.
Installing ==
  ~run_dry /\ instruction.kind \in {"InstallApplication", "InstallPackage"}

\* Log positions of the availability probes and of the install commands.
Probes == {n \in 1..Len(run_fx) : run_fx[n].act = "probe"}
Installs == {n \in 1..Len(run_fx) : run_fx[n].act = "install"}

\* The managers the array lists, as a sequence of names.
ManagerOrder ==
  IF instruction.kind = "InstallApplication"
    THEN <<"apt", "yum", "dnf", "pacman", "zypper", "brew">>
    ELSE <<"npm", "yarn", "bun", "pnpm", "cargo", "pipx", "pip", "gem", "go">>

\* The probes come in the order of the array, one per manager, without gaps.
ProbedInOrder ==
  \A n \in Probes :
    run_fx[n].pm = ManagerOrder[Cardinality({k \in Probes : k <= n})]

\* An install command is run only right after the successful probe of the
\* same manager.
InstallOnlyIfAvailable ==
  \A n \in Installs :
    /\ n > 1
    /\ run_fx[n - 1].act = "probe"
    /\ run_fx[n - 1].pm = run_fx[n].pm
    /\ run_fx[n - 1].status = "exit_zero"

\* C30 as stated: a live install probes the managers in their fixed order and
\* invokes the install command of the first available one and only of that
\* one, never of a manager whose probe failed; it returns an error only if
\* no manager succeeds.
C30_OnlyFirstAvailable ==
  Installing =>
    /\ ProbedInOrder
    /\ InstallOnlyIfAvailable
    /\ Cardinality(Installs) <= 1
    /\ (run_pc = "returned" /\ run_res = "Err") =>
         \A n \in Installs : run_fx[n].status # "exit_zero"

\* C30, amended: a live install probes the managers in their fixed order and
\* invokes the install command of each available one in turn until one
\* exits with status zero, never of a manager whose probe failed and never
\* after a successful install; it returns Ok exactly when the last install
\* command exited with status zero, and an error when an install command
\* could not be spawned or when every manager was probed without success.
C30_TriesUntilSuccess ==
  Installing =>
    /\ ProbedInOrder
    /\ InstallOnlyIfAvailable
    /\ \A n \in Installs :
         n < Len(run_fx) => run_fx[n].status = "exit_nonzero"
    /\ \A n \in Probes :
         (n < Len(run_fx) /\ run_fx[n].status = "exit_zero") =>
           run_fx[n + 1].act = "install"
    /\ run_pc = "returned" =>
         /\ run_res \in {"Ok", "Err"}
         /\ run_res = "Ok" <=>
              /\ run_fx # <<>>
              /\ run_fx[Len(run_fx)].act = "install"
              /\ run_fx[Len(run_fx)].status = "exit_zero"
         /\ run_res = "Err" <=>
              \/ /\ run_fx[Len(run_fx)].act = "install"
                 /\ run_fx[Len(run_fx)].status = "spawn_error"
              \/ /\ Cardinality(Probes) = Len(ManagerOrder)
                 /\ \A n \in Installs : run_fx[n].status = "exit_nonzero"

\* The first available manager fails, a later one is invoked and succeeds.
C30_Witness ==
  /\ Installing
  /\ run_pc = "returned"
  /\ run_res = "Ok"
  /\ Cardinality(Installs) = 2

\* The packages for which the spawn loop of phase ph spawns a worker.
Eligible(ph) ==
  {p \in Pkgs : ph = "install" \/ (programs[p].mapped
                                    /\ programs[p].m[ListName(ph)] # <<>>)}

\* The worker of phase ph and package p has been spawned and has not ended.
Unfinished(ph, p) == thread[ph][p].st \in {"spawned", "checks", "run"}

\* The next step of that worker.
WorkerStep(ph, p) ==
  CASE ph = "install" -> installer_thread(p)
    [] ph = "configure" -> configurator_thread(p)
    [] ph = "uninstall" -> uninstaller_thread(p)
    [] ph = "deconfigure" -> deconfigurator_thread(p)

C31_Parallel ==
  /\ \A ph \in Phases : \A p \in Pkgs :
       /\ thread[ph][p].joined =>
            \A q \in Eligible(ph) : thread[ph][q].st # "none"
       /\ Unfinished(ph, p) => ENABLED WorkerStep(ph, p)
  /\ (opc = "spawn" /\ oi <= NPkg) =>
       ENABLED (installer \/ configurator \/ uninstaller \/ deconfigurator)

\* C31: a phase spawns the workers of all eligible packages before it joins
\* any of them, and nothing makes a worker or the spawn loop wait for a
\* sibling worker: the spawn loop can go on and every spawned, unfinished
\* worker can take its next step whatever the state of the others, so the
\* workers of a phase interleave freely.
C31_WorkersInParallel == []C31_Parallel

\* Both workers of a phase are spawned; the first has not taken a step, the
\* second has run an instruction and ended.
C31_Witness ==
  \E ph \in Phases :
    /\ thread[ph][1].st = "spawned"
    /\ thread[ph][2].st = "returned"
    /\ calls[ph][2] # <<>>
    /\ ~thread[ph][1].joined

\* The second worker ran an instruction between two instructions of the
\* first: the first is in the middle of its list, the second has ended.
C31_WitnessInterleaved ==
  \E ph \in Phases :
    /\ thread[ph][1].st = "run"
    /\ calls[ph][1] # <<>>
    /\ thread[ph][2].st = "returned"
    /\ calls[ph][2] # <<>>

\* The lists a worker of phase ph reads.
ListsOf(ph) ==
  IF ph = "install" THEN {"prerequisite_checks", "install"}
  ELSE {ListName(ph)}

\* The worker of phase ph and package p has ended.
Ended(ph, p) == thread[ph][p].st \in {"returned", "panicked"}

C32_AtMostOnce ==
  \A ph \in Phases : \A p \in Pkgs :
    LET c == calls[ph][p] IN
      /\ \A n \in 1..Len(c) :
           /\ c[n].list \in ListsOf(ph)
           /\ c[n].idx \in 1..Len(programs[p].m[c[n].list])
           /\ \A k \in 1..(n - 1) :
                ~(c[k].list = c[n].list /\ c[k].idx = c[n].idx)
           /\ (c[n].list # "prerequisite_checks" /\ c[n].res = "Err") =>
                /\ n = Len(c)
                /\ Ended(ph, p)

\* A worker that has ended is not started again and runs nothing more.
C32_NotRevisited ==
  \A ph \in Phases : \A p \in Pkgs :
    Ended(ph, p) =>
      /\ thread'[ph][p].st = thread[ph][p].st
      /\ calls'[ph][p] = calls[ph][p]

\* C32: nothing is retried: within one install() or uninstall() call every
\* instruction of every package's phase lists is invoked at most once, a
\* failing instruction is the last one its worker runs, and a worker that
\* has ended is not started again in that phase.
C32_NothingRetried == []C32_AtMostOnce /\ [][C32_NotRevisited]_vars

\* The operation has returned; a worker stopped at the failing first
\* instruction of a list of two, which was run once.
C32_Witness ==
  /\ result # "none"
  /\ \E ph \in Phases : \E p \in Pkgs :
       /\ Len(programs[p].m[ListName(ph)]) = 2
       /\ Len(calls[ph][p]) = 1
       /\ calls[ph][p][1].list = ListName(ph)
       /\ calls[ph][p][1].res = "Err"
       /\ thread[ph][p].joined

\* The workers phase ph spawned.
SpawnedIn(ph) == {p \in Pkgs : thread[ph][p].st # "none"}

C33_Completion ==
  /\ \A n \in 1..2 :
       (ophase > n \/ result # "none") =>
         \A p \in SpawnedIn(PhaseOrder(op)[n]) :
           /\ Ended(PhaseOrder(op)[n], p)
           /\ thread[PhaseOrder(op)[n]][p].joined
  /\ \A ph \in Phases \ {PhaseOrder(op)[1], PhaseOrder(op)[2]} :
       SpawnedIn(ph) = {}
  /\ result # "none" =>
       /\ result = "Ok"
       /\ ophase = 2
       /\ opc = "ret"

\* C33: install() and uninstall() terminate when every instruction
\* invocation does: each runs its two phases and no other, a phase ends
\* only once all the workers it spawned have ended and been joined, and the
\* operation then returns Ok whatever the outcomes of the packages were.
C33_Terminates ==
  /\ []C33_Completion
  /\ <>(result # "none")

\* The operation has returned Ok although a worker panicked and another
\* stopped on a failing instruction.
C33_Witness ==
  /\ result = "Ok"
  /\ panic_log # {}
  /\ \E ph \in Phases : \E p \in Pkgs :
       /\ calls[ph][p] # <<>>
       /\ calls[ph][p][Len(calls[ph][p])].res = "Err"
       /\ calls[ph][p][Len(calls[ph][p])].list = ListName(ph)

\* The prerequisite checks of package p that have a command.
ChecksWithCommand(p) ==
  {n \in 1..Len(programs[p].m.prerequisite_checks) :
     ~programs[p].m.prerequisite_checks[n].blank}

\* The first of them.
FirstCheckWithCommand(p) ==
  CHOOSE n \in ChecksWithCommand(p) : \A k \in ChecksWithCommand(p) : n <= k

C34_DryRunStopsAtCheck ==
  (dry_run /\ op = "install") =>
    \A p \in Pkgs :
      (programs[p].mapped /\ ChecksWithCommand(p) # {}) =>
        LET c == calls["install"][p]
            f == FirstCheckWithCommand(p) IN
          /\ Len(c) <= f
          /\ \A n \in 1..Len(c) :
               /\ c[n].list = "prerequisite_checks"
               /\ c[n].idx = n
               /\ c[n].dry
               /\ c[n].res = IF n = f THEN "Ok" ELSE "Err"
          /\ Len(c) = f <=> thread["install"][p].st = "returned"
          /\ thread["install"][p].st # "panicked"

Configurable ==
  {p \in Pkgs : programs[p].mapped /\ programs[p].m.configuration # <<>>}

\* The install worker of package p ended at a successful prerequisite check.
InstallSkipped(p) ==
  \E n \in 1..Len(calls["install"][p]) :
    /\ calls["install"][p][n].list = "prerequisite_checks"
    /\ calls["install"][p][n].res = "Ok"

C35_ConfiguredAnyway ==
  op = "install" =>
    \A p \in Configurable :
      /\ (ophase = 2 /\ (oi > p \/ opc # "spawn")) =>
           thread["configure"][p].st # "none"
      /\ result # "none" =>
           /\ thread["configure"][p].st = "returned"
           /\ calls["configure"][p] # <<>>
           /\ calls["configure"][p][1].list = "configuration"
           /\ calls["configure"][p][1].idx = 1

\* C35: the configure phase does not depend on the install outcome of the
\* same package: every package with a mapping and a non-empty configuration
\* list gets its configure worker once the spawn loop of configurator has
\* passed it, and by the end of install() that worker has run the
\* configuration list from its first instruction, whether the package's
\* install instructions succeeded, failed or were skipped.
C35_ConfigureIndependent == []C35_ConfiguredAnyway

\* install() has returned: the install list of a package failed, and its
\* configuration instruction was run all the same.
C35_Witness ==
  /\ op = "install"
  /\ result # "none"
  /\ \E p \in Configurable :
       /\ InstallFailed(p)
       /\ calls["configure"][p] # <<>>

\* The same after the prerequisite short-circuit skipped an install list.
C35_WitnessSkipped ==
  /\ op = "install"
  /\ result # "none"
  /\ \E p \in Configurable :
       /\ InstallSkipped(p)
       /\ programs[p].m.install # <<>>
       /\ calls["install"][p][Len(calls["install"][p])].list
            = "prerequisite_checks"
       /\ calls["configure"][p] # <<>>

\* The collector thread takes a step.
CollectorSteps == collector_pc' # collector_pc

C36_LoopLeaves ==
  /\ (collector_pc = "start" /\ CollectorSteps) =>
       /\ running'
       /\ collector_pc' = "while"
  /\ (collector_pc = "while" /\ CollectorSteps) => collector_pc' = "recv"
  /\ (collector_pc = "recv" /\ CollectorSteps) =>
       collector_pc' =
         IF channel = <<>> /\ ~system_sender
                           /\ \A h \in Handles : logger[h] # "live"
           THEN "break"
           ELSE "while"
  /\ collector_pc \in {"break", "end"} => ~CollectorSteps

\* C36: the channel's disconnected signal is the only thing that ends the
\* collector: run() sets the running flag on entry, so a stop() call made
\* before run() starts has no effect; from then on the flag stays set, the
\* loop test never ends the loop, a receive timeout (empty queue, a Sender
\* alive) goes back to the loop test, and the loop is left exactly when
\* recv_timeout reports Disconnected (empty queue, no Sender left).
C36_DisconnectedOnly ==
  /\ [](collector_pc \in {"while", "recv", "break"} => running)
  /\ [](collector_pc # "end")
  /\ [][C36_LoopLeaves]_vars

\* stop() was called before run(); the collector still received the queued
\* messages and left its loop at the disconnection.
C36_Witness ==
  /\ stopped
  /\ collector_pc = "break"
  /\ received # <<>>
  /\ received = sent[0]

\* The order the claim states, pair by pair: l is below h.
Below(l, h) ==
  <<l, h>> \in
    {<<"Debug", "Info">>, <<"Debug", "Warning">>, <<"Debug", "Error">>,
     <<"Debug", "Critical">>, <<"Info", "Warning">>, <<"Info", "Error">>,
     <<"Info", "Critical">>, <<"Warning", "Error">>,
     <<"Warning", "Critical">>, <<"Error", "Critical">>}

\* The message was handed to the outputs.
Written(m) == \E n \in 1..Len(written) : written[n][2] = m

C37_LevelOrderAndFilter ==
  /\ LevelSet = {"Debug", "Info", "Warning", "Error", "Critical"}
  /\ \A l, h \in LevelSet : Below(l, h) <=> LevelRank(l) < LevelRank(h)
  /\ \A l, h \in LevelSet : l = h \/ Below(l, h) \/ Below(h, l)
  /\ Len(filters) = 1 =>
       \A n \in 1..Len(received) :
         Written(received[n]) <=> ~Below(received[n].level, filters[1])
  /\ filters = <<"Info">> =>
       \A n \in 1..Len(received) :
         Written(received[n]) <=> received[n].level # "Debug"

\* C37: the log levels are totally ordered Debug < Info < Warning < Error <
\* Critical (the derived order of the enum), and a LevelFilter lets a
\* message pass exactly when its level is not below the filter's; with the
\* Info filter of main, Debug messages are dropped and all others pass.
C37_LevelFilter == []C37_LevelOrderAndFilter

\* Behind the Info filter a Debug message was received and dropped, and an
\* Info message was received and written.
C37_Witness ==
  /\ filters = <<"Info">>
  /\ \E i, j \in 1..Len(received) :
       /\ received[i].level = "Debug"
       /\ ~Written(received[i])
       /\ received[j].level = "Info"
       /\ Written(received[j])

\* The categories the claim calls sub-families of Linux, and the others.
LinuxFamilies == {"ArchBased", "RHELBased", "DebianBased", "GentooBased"}
OtherSystems == {"Windows", "MacOS", "AndroidBased"}

\* The system is in the list of the LinuxBased matcher.
InLinuxBased(os) ==
  \E i \in 1..Len(OsMatcher_from_category("LinuxBased")) :
    OsMatcher_from_category("LinuxBased")[i] = os

\* A matcher made by from_category(category) exists.
BuiltFrom(category) ==
  matcher_pc # "none" /\ built = <<"from_category", category>>

\* C38: the OS categories overlap as sub-families of Linux: every identity
\* in the list of an ArchBased, RHELBased, DebianBased or GentooBased
\* matcher is also in the LinuxBased list, and no identity in the list of a
\* Windows, MacOS or AndroidBased matcher is; so what such a matcher
\* matches, the LinuxBased matcher matches too, respectively does not.
C38_LinuxSubFamilies ==
  /\ \A c \in LinuxFamilies :
       BuiltFrom(c) =>
         /\ os_list # <<>>
         /\ \A i \in 1..Len(os_list) : InLinuxBased(os_list[i])
         /\ (matcher_pc = "matched" /\ answer) => InLinuxBased(asked)
  /\ \A c \in OtherSystems :
       BuiltFrom(c) =>
         /\ os_list # <<>>
         /\ \A i \in 1..Len(os_list) : ~InLinuxBased(os_list[i])
         /\ (matcher_pc = "matched" /\ answer) => ~InLinuxBased(asked)

\* The ArchBased matcher was asked about Manjaro and matched it.
C38_Witness ==
  /\ BuiltFrom("ArchBased")
  /\ matcher_pc = "matched"
  /\ asked = "Manjaro"
  /\ answer

\* The AndroidBased matcher matched Android, which is not in LinuxBased.
C38_WitnessDisjoint ==
  /\ BuiltFrom("AndroidBased")
  /\ matcher_pc = "matched"
  /\ asked = "Android"
  /\ answer


====
